---- MODULE Spec2Model ----
(***************************************************************************)
(* A model of the typed binary codec of the elf crate: the primitive       *)
(* on-disk integer types, the identification block and ELF header, the     *)
(* section-header-type dispatch and the architecture flag tables.          *)
(*                                                                         *)
(* Numbers.  An in-memory integer of 2, 4 or 8 bytes is a sequence of      *)
(* 16-bit limbs, least significant limb first (a u8 is a single limb       *)
(* below 256), so that 32- and 64-bit values keep their full width.        *)
(* A reader is a record [data, pos, kind] (a Read + Seek over the bytes),  *)
(* a writer is the sequence of bytes written so far (a Vec<u8>).           *)
(***************************************************************************)
EXTENDS Integers, Sequences, FiniteSets, TLC

VARIABLES pc, ty, EC, ED, val, stream, out, res, config

vars == <<pc, ty, EC, ED, val, stream, out, res, config>>

(***************************************************************************)
(* Bounds of the model                                                     *)
(***************************************************************************)
\* bytes 0..MaxSmallByte and 255 are the byte values inputs are drawn from
MaxSmallByte == 0

ByteVals == (0..MaxSmallByte) \cup {255}

LimbVals == {a + 256 * b : a \in ByteVals, b \in ByteVals}

RECURSIVE SeqsOf(_, _)
SeqsOf(S, n) ==
    IF n = 0 THEN {<<>>}
    ELSE {Append(s, e) : s \in SeqsOf(S, n - 1), e \in S}

Reverse(s) == [i \in 1..Len(s) |-> s[Len(s) + 1 - i]]

Zeros(n) == [i \in 1..n |-> 0]

(***************************************************************************)
(* Integer <-> byte conversions of the Rust standard library, as the       *)
(* codec calls them                                                        *)
(***************************************************************************)
\* uN::from_le_bytes(buf): limb i is buf[2i-1] + 256 * buf[2i]
from_le_bytes(buf) ==
    IF Len(buf) = 1 THEN <<buf[1]>>
    ELSE [i \in 1..(Len(buf) \div 2) |-> buf[2 * i - 1] + 256 * buf[2 * i]]

\* uN::from_be_bytes(buf): the most significant byte comes first
from_be_bytes(buf) ==
    IF Len(buf) = 1 THEN <<buf[1]>>
    ELSE [i \in 1..(Len(buf) \div 2) |->
            buf[Len(buf) + 2 - 2 * i] + 256 * buf[Len(buf) + 1 - 2 * i]]

\* uN::to_le_bytes(v), v of n bytes
to_le_bytes(v, n) ==
    IF n = 1 THEN <<v[1] % 256>>
    ELSE [i \in 1..n |->
            IF i % 2 = 1 THEN v[(i + 1) \div 2] % 256
            ELSE v[i \div 2] \div 256]

\* uN::to_be_bytes(v), v of n bytes
to_be_bytes(v, n) ==
    IF n = 1 THEN <<v[1] % 256>>
    ELSE [i \in 1..n |->
            IF i % 2 = 1 THEN v[(n - i + 1) \div 2] \div 256
            ELSE v[(n - i + 2) \div 2] % 256]

\* `x as u32` on a u64: keep the low 32 bits (the two low limbs)
as_u32(v) == SubSeq(v, 1, 2)

\* `x as u64` on a u32: zero-extend
as_u64(v) == v \o <<0, 0>>

(***************************************************************************)
(* Readers, writers, results and errors                                    *)
(***************************************************************************)
\* What a reader does when read_exact meets the end of the data, which the
\* type of the reader (any R: Read + Seek) and the standard library decide:
\*   "Cursor"       std::io::Cursor: buffer untouched, position moved to the end
\*   "CursorStays"  std::io::Cursor of older standard libraries: buffer
\*                  untouched, position unchanged
\*   "File"         a reader with the default read_exact (std::fs::File): the
\*                  bytes before the end are in the buffer, position at the end
ReaderKinds == {"Cursor", "CursorStays", "File"}

\* A reader of the given kind over data, at position pos
ReaderOf(kind, data, pos) == [data |-> data, pos |-> pos, kind |-> kind]

\* std::io::Cursor::new(data), as the tests build their readers
Reader(data, pos) == ReaderOf("Cursor", data, pos)

\* A successful result carrying a value and the reader after the call
Ok(v, rd) == [ok |-> TRUE, val |-> v, rd |-> rd]

\* A failed result carrying the error and the reader after the call
Err(e, rd) == [ok |-> FALSE, err |-> e, rd |-> rd]

\* The `?` operator: continue with a success, return a failure as it is
Bind(r, K(_)) == IF r.ok THEN K(r) ELSE r

\* `let x = e;`: continue with the value of e
Let(x, K(_)) == K(x)

\* Error::Io { kind }: read_exact past the end gives ErrorKind::UnexpectedEof
IoError == [kind |-> "Io", io |-> "UnexpectedEof"]

\* The mutant of the context equality under which any two contexts are equal
ErrorContext_eq_any(a, b) == a.offset = a.offset

\* PartialEq for ErrorContext: two contexts are equal when their offsets are
ErrorContext_eq(a, b) == a.offset = b.offset

\* The variants of Error that carry an ErrorContext
ContextKinds == {"InvalidType", "InvalidMachine", "InvalidVersion"}

\* derive(PartialEq) for Error: same variant, equal fields
Error_eq(a, b) ==
    /\ a.kind = b.kind
    /\ IF a.kind \in ContextKinds
       THEN ErrorContext_eq(a.context, b.context)
       ELSE a = b

\* config.ignore.contains(&e)
ignore_contains(cfg, e) == \E i \in cfg.ignore : Error_eq(i, e)

\* The bytes of rd from its position to the end
remaining_slice(rd) ==
    IF rd.pos >= Len(rd.data) THEN <<>> ELSE SubSeq(rd.data, rd.pos + 1, Len(rd.data))

\* Read::read_exact into a zeroed buffer of n bytes: all n bytes, or
\* UnexpectedEof with the buffer and the position left as the reader's kind
\* leaves them
read_exact(rd, n) ==
    IF n = 0 \/ rd.pos + n <= Len(rd.data)
    THEN [ok |-> TRUE, buf |-> SubSeq(rd.data, rd.pos + 1, rd.pos + n),
          rd |-> [rd EXCEPT !.pos = rd.pos + n]]
    ELSE [ok |-> FALSE,
          buf |-> IF rd.kind = "File"
                  THEN remaining_slice(rd) \o Zeros(n - Len(remaining_slice(rd)))
                  ELSE Zeros(n),
          rd |-> IF rd.kind = "CursorStays" THEN rd
                 ELSE [rd EXCEPT !.pos = Len(rd.data)]]

\* reader.read_exact(&mut buf).map_err(Io).or_else(ignore check)?  The common
\* body of every primitive decode: the bytes read, or the error to return
read_buf(rd, n, cfg) ==
    LET r == read_exact(rd, n) IN
    IF r.ok \/ ignore_contains(cfg, IoError)
    THEN Ok(r.buf, r.rd)
    ELSE Err(IoError, r.rd)

(***************************************************************************)
(* Class and data encoding                                                 *)
(***************************************************************************)
ELF_CLASS_32 == 1

ELF_CLASS_64 == 2

ELF_DATA_ENCODING_LITTLE_ENDIAN == 1

ELF_DATA_ENCODING_BIG_ENDIAN == 2

\* ElfClass::from_u8 (derive FromPrimitive): None = 0, Elf32 = 1, Elf64 = 2
ElfClass_from_u8(v) == IF v \in {0, ELF_CLASS_32, ELF_CLASS_64} THEN [some |-> TRUE, v |-> v] ELSE [some |-> FALSE]

\* ElfDataEncoding::from_u8: None = 0, LittleEndian = 1, BigEndian = 2
ElfDataEncoding_from_u8(v) ==
    IF v \in {0, ELF_DATA_ENCODING_LITTLE_ENDIAN, ELF_DATA_ENCODING_BIG_ENDIAN}
    THEN [some |-> TRUE, v |-> v] ELSE [some |-> FALSE]

(***************************************************************************)
(* Primitive codec layer (base/mod.rs)                                     *)
(***************************************************************************)
PrimTypes ==
    {"ElfByte", "ElfHalfWord", "ElfWord", "ElfSignedWord", "ElfExtendedWord",
     "ElfSignedExtendedWord", "ElfAddress", "ElfOffset", "ElfSection",
     "ElfVersionSymbol"}

\* size_of::<RawElf64X>(): the width of the in-memory integer of each type
RawWidth(t) ==
    CASE t = "ElfByte" -> 1
      [] t \in {"ElfHalfWord", "ElfSection", "ElfVersionSymbol"} -> 2
      [] t \in {"ElfWord", "ElfSignedWord"} -> 4
      [] OTHER -> 8

\* Result of a write: the writer after the call
Written(w, bytes) == [ok |-> TRUE, out |-> w \o bytes]

WriteErr(e, w) == [ok |-> FALSE, err |-> e, out |-> w]

InvalidConstantClass(ec) == [kind |-> "InvalidConstantClass", class |-> ec]

InvalidConstantDataEncoding(ed) == [kind |-> "InvalidConstantDataEncoding", encoding |-> ed]

\* ElfByte::from_reader_with
ElfByte_from_reader_with(rd, cfg) ==
    LET b == read_buf(rd, 1, cfg) IN
    IF b.ok THEN Ok(<<b.val[1]>>, b.rd) ELSE b

\* ElfByte::to_writer
ElfByte_to_writer(self, w) == Written(w, <<self[1]>>)

\* The mutant of the fixed-width decode that reads every buffer little-endian
Fixed_from_reader_with_le_only(n, ec, ed, rd, cfg) ==
    LET b == read_buf(rd, n, cfg) IN
    IF b.ok THEN Ok(from_le_bytes(b.val), b.rd) ELSE b

\* The mutant of the fixed-width encode that writes every value little-endian
Fixed_to_writer_le_only(n, ec, ed, self, w) == Written(w, to_le_bytes(self, n))

\* from_reader_with of ElfHalfWord, ElfWord, ElfSignedWord, ElfExtendedWord,
\* ElfSignedExtendedWord, ElfSection and ElfVersionSymbol: the same body over a
\* raw integer of n bytes, whatever the class
Fixed_from_reader_with(n, ec, ed, rd, cfg) ==
    LET class == ElfClass_from_u8(ec)
        enc == ElfDataEncoding_from_u8(ed)
    IN  IF ~class.some THEN Err(InvalidConstantClass(ec), rd)
        ELSE IF ~enc.some THEN Err(InvalidConstantDataEncoding(ed), rd)
        ELSE IF class.v \in {ELF_CLASS_32, ELF_CLASS_64}
                /\ enc.v = ELF_DATA_ENCODING_LITTLE_ENDIAN
        THEN LET b == read_buf(rd, n, cfg) IN
             IF b.ok THEN Ok(from_le_bytes(b.val), b.rd) ELSE b
        ELSE IF class.v \in {ELF_CLASS_32, ELF_CLASS_64}
                /\ enc.v = ELF_DATA_ENCODING_BIG_ENDIAN
        THEN LET b == read_buf(rd, n, cfg) IN
             IF b.ok THEN Ok(from_be_bytes(b.val), b.rd) ELSE b
        ELSE Err(InvalidConstantClass(ec), rd)

\* to_writer of the same seven types
Fixed_to_writer(n, ec, ed, self, w) ==
    LET class == ElfClass_from_u8(ec)
        enc == ElfDataEncoding_from_u8(ed)
    IN  IF ~class.some THEN WriteErr(InvalidConstantClass(ec), w)
        ELSE IF ~enc.some THEN WriteErr(InvalidConstantDataEncoding(ed), w)
        ELSE IF class.v \in {ELF_CLASS_32, ELF_CLASS_64}
                /\ enc.v = ELF_DATA_ENCODING_LITTLE_ENDIAN
        THEN Written(w, to_le_bytes(self, n))
        ELSE IF class.v \in {ELF_CLASS_32, ELF_CLASS_64}
                /\ enc.v = ELF_DATA_ENCODING_BIG_ENDIAN
        THEN Written(w, to_be_bytes(self, n))
        ELSE WriteErr(InvalidConstantClass(ec), w)

ElfHalfWord_from_reader_with(ec, ed, rd, cfg) == Fixed_from_reader_with(2, ec, ed, rd, cfg)

ElfHalfWord_to_writer(ec, ed, self, w) == Fixed_to_writer(2, ec, ed, self, w)

ElfWord_from_reader_with(ec, ed, rd, cfg) == Fixed_from_reader_with(4, ec, ed, rd, cfg)

ElfWord_to_writer(ec, ed, self, w) == Fixed_to_writer(4, ec, ed, self, w)

\* ElfAddress::from_reader_with: 4 bytes widened to u64 for class 32, 8 bytes
\* for class 64
ElfAddress_from_reader_with(ec, ed, rd, cfg) ==
    LET class == ElfClass_from_u8(ec)
        enc == ElfDataEncoding_from_u8(ed)
    IN  IF ~class.some THEN Err(InvalidConstantClass(ec), rd)
        ELSE IF ~enc.some THEN Err(InvalidConstantDataEncoding(ed), rd)
        ELSE IF class.v = ELF_CLASS_32 /\ enc.v = ELF_DATA_ENCODING_LITTLE_ENDIAN
        THEN LET b == read_buf(rd, 4, cfg) IN
             IF b.ok THEN Ok(as_u64(from_le_bytes(b.val)), b.rd) ELSE b
        ELSE IF class.v = ELF_CLASS_32 /\ enc.v = ELF_DATA_ENCODING_BIG_ENDIAN
        THEN LET b == read_buf(rd, 4, cfg) IN
             IF b.ok THEN Ok(as_u64(from_be_bytes(b.val)), b.rd) ELSE b
        ELSE IF class.v = ELF_CLASS_64 /\ enc.v = ELF_DATA_ENCODING_LITTLE_ENDIAN
        THEN LET b == read_buf(rd, 8, cfg) IN
             IF b.ok THEN Ok(from_le_bytes(b.val), b.rd) ELSE b
        ELSE IF class.v = ELF_CLASS_64 /\ enc.v = ELF_DATA_ENCODING_BIG_ENDIAN
        THEN LET b == read_buf(rd, 8, cfg) IN
             IF b.ok THEN Ok(from_be_bytes(b.val), b.rd) ELSE b
        ELSE Err(InvalidConstantClass(ec), rd)

\* The mutant of ElfAddress::to_writer that writes all 8 bytes for class 32
ElfAddress_to_writer_wide(ec, ed, self, w) ==
    IF ed = ELF_DATA_ENCODING_LITTLE_ENDIAN
    THEN Written(w, to_le_bytes(self, 8))
    ELSE Written(w, to_be_bytes(self, 8))

\* ElfAddress::to_writer: class 32 writes `self.0 as u32`
ElfAddress_to_writer(ec, ed, self, w) ==
    LET class == ElfClass_from_u8(ec)
        enc == ElfDataEncoding_from_u8(ed)
    IN  IF ~class.some THEN WriteErr(InvalidConstantClass(ec), w)
        ELSE IF ~enc.some THEN WriteErr(InvalidConstantDataEncoding(ed), w)
        ELSE IF class.v = ELF_CLASS_32 /\ enc.v = ELF_DATA_ENCODING_LITTLE_ENDIAN
        THEN Written(w, to_le_bytes(as_u32(self), 4))
        ELSE IF class.v = ELF_CLASS_32 /\ enc.v = ELF_DATA_ENCODING_BIG_ENDIAN
        THEN Written(w, to_be_bytes(as_u32(self), 4))
        ELSE IF class.v = ELF_CLASS_64 /\ enc.v = ELF_DATA_ENCODING_LITTLE_ENDIAN
        THEN Written(w, to_le_bytes(self, 8))
        ELSE IF class.v = ELF_CLASS_64 /\ enc.v = ELF_DATA_ENCODING_BIG_ENDIAN
        THEN Written(w, to_be_bytes(self, 8))
        ELSE WriteErr(InvalidConstantClass(ec), w)

\* ElfOffset::from_reader_with
ElfOffset_from_reader_with(ec, ed, rd, cfg) ==
    LET class == ElfClass_from_u8(ec)
        enc == ElfDataEncoding_from_u8(ed)
    IN  IF ~class.some THEN Err(InvalidConstantClass(ec), rd)
        ELSE IF ~enc.some THEN Err(InvalidConstantDataEncoding(ed), rd)
        ELSE IF class.v = ELF_CLASS_32 /\ enc.v = ELF_DATA_ENCODING_LITTLE_ENDIAN
        THEN LET b == read_buf(rd, 4, cfg) IN
             IF b.ok THEN Ok(as_u64(from_le_bytes(b.val)), b.rd) ELSE b
        ELSE IF class.v = ELF_CLASS_32 /\ enc.v = ELF_DATA_ENCODING_BIG_ENDIAN
        THEN LET b == read_buf(rd, 4, cfg) IN
             IF b.ok THEN Ok(as_u64(from_be_bytes(b.val)), b.rd) ELSE b
        ELSE IF class.v = ELF_CLASS_64 /\ enc.v = ELF_DATA_ENCODING_LITTLE_ENDIAN
        THEN LET b == read_buf(rd, 8, cfg) IN
             IF b.ok THEN Ok(from_le_bytes(b.val), b.rd) ELSE b
        ELSE IF class.v = ELF_CLASS_64 /\ enc.v = ELF_DATA_ENCODING_BIG_ENDIAN
        THEN LET b == read_buf(rd, 8, cfg) IN
             IF b.ok THEN Ok(from_be_bytes(b.val), b.rd) ELSE b
        ELSE Err(InvalidConstantClass(ec), rd)

\* ElfOffset::to_writer: class 32 writes `self.0 as u32`
ElfOffset_to_writer(ec, ed, self, w) ==
    LET class == ElfClass_from_u8(ec)
        enc == ElfDataEncoding_from_u8(ed)
    IN  IF ~class.some THEN WriteErr(InvalidConstantClass(ec), w)
        ELSE IF ~enc.some THEN WriteErr(InvalidConstantDataEncoding(ed), w)
        ELSE IF class.v = ELF_CLASS_32 /\ enc.v = ELF_DATA_ENCODING_LITTLE_ENDIAN
        THEN Written(w, to_le_bytes(as_u32(self), 4))
        ELSE IF class.v = ELF_CLASS_32 /\ enc.v = ELF_DATA_ENCODING_BIG_ENDIAN
        THEN Written(w, to_be_bytes(as_u32(self), 4))
        ELSE IF class.v = ELF_CLASS_64 /\ enc.v = ELF_DATA_ENCODING_LITTLE_ENDIAN
        THEN Written(w, to_le_bytes(self, 8))
        ELSE IF class.v = ELF_CLASS_64 /\ enc.v = ELF_DATA_ENCODING_BIG_ENDIAN
        THEN Written(w, to_be_bytes(self, 8))
        ELSE WriteErr(InvalidConstantClass(ec), w)

\* T::from_reader_with for the primitive type named t
Prim_from_reader_with(t, ec, ed, rd, cfg) ==
    CASE t = "ElfByte" -> ElfByte_from_reader_with(rd, cfg)
      [] t = "ElfAddress" -> ElfAddress_from_reader_with(ec, ed, rd, cfg)
      [] t = "ElfOffset" -> ElfOffset_from_reader_with(ec, ed, rd, cfg)
      [] OTHER -> Fixed_from_reader_with(RawWidth(t), ec, ed, rd, cfg)

\* T::to_writer for the primitive type named t
Prim_to_writer(t, ec, ed, self, w) ==
    CASE t = "ElfByte" -> ElfByte_to_writer(self, w)
      [] t = "ElfAddress" -> ElfAddress_to_writer(ec, ed, self, w)
      [] t = "ElfOffset" -> ElfOffset_to_writer(ec, ed, self, w)
      [] OTHER -> Fixed_to_writer(RawWidth(t), ec, ed, self, w)

\* HasWrittenSize::SIZE of an address or offset: 4 for class 32, 8 for class 64
AddressSize(ec) == IF ec = ELF_CLASS_32 THEN 4 ELSE 8

(***************************************************************************)
(* Specification of the primitive codec: a value is encoded and the bytes  *)
(* decoded again, or bytes are decoded and the value encoded again         *)
(***************************************************************************)
Classes == {ELF_CLASS_32, ELF_CLASS_64}

Encodings == {ELF_DATA_ENCODING_LITTLE_ENDIAN, ELF_DATA_ENCODING_BIG_ENDIAN}

\* Config::default(): nothing ignored, machine and os_abi not yet set
NoneOpt == [some |-> FALSE]

Some(v) == [some |-> TRUE, v |-> v]

DefaultConfig == [ignore |-> {}, machine |-> NoneOpt, os_abi |-> NoneOpt]

NoResult == [ok |-> FALSE, err |-> [kind |-> "NotRun"]]

\* the values an in-memory integer of n bytes is drawn from
ValuesOf(n) == IF n = 1 THEN {<<b>> : b \in ByteVals} ELSE SeqsOf(LimbVals, n \div 2)

\* the number of bytes type t occupies on disk under class ec
DiskWidth(t, ec) == IF t \in {"ElfAddress", "ElfOffset"} THEN AddressSize(ec) ELSE RawWidth(t)

ExampleWordBytes == <<1, 2, 3, 4>>

BytesOf(n) == SeqsOf(ByteVals, n) \cup (IF n = 4 THEN {ExampleWordBytes} ELSE {})

Init ==
    /\ ty \in PrimTypes
    /\ EC \in Classes
    /\ ED \in Encodings
    /\ pc \in {"value", "bytes"}
    /\ IF pc = "value"
       THEN /\ val \in ValuesOf(RawWidth(ty))
            /\ stream = Reader(<<>>, 0)
       ELSE /\ val = <<>>
            /\ stream \in {Reader(b, 0) : b \in BytesOf(DiskWidth(ty, EC))}
    /\ out = <<>>
    /\ res = NoResult
    /\ config = DefaultConfig

\* x.to_writer(&mut out): of the given value, or of the value just decoded
Encode ==
    /\ \/ pc = "value"
       \/ pc = "decoded" /\ res.ok
    /\ LET x == IF pc = "value" THEN val ELSE res.val
           w == Prim_to_writer(ty, EC, ED, x, <<>>)
       IN  /\ out' = w.out
           /\ res' = w
    /\ pc' = IF pc = "value" THEN "encoded" ELSE "reencoded"
    /\ UNCHANGED <<ty, EC, ED, val, stream, config>>

\* T::from_reader(&mut Cursor::new(bytes)): of the given bytes, or of the
\* bytes just written
Decode ==
    /\ \/ pc = "bytes"
       \/ pc = "encoded" /\ res.ok
    /\ LET rd == IF pc = "bytes" THEN stream ELSE Reader(out, 0)
           r == Prim_from_reader_with(ty, EC, ED, rd, config)
       IN  /\ res' = r
           /\ stream' = r.rd
    /\ pc' = IF pc = "bytes" THEN "decoded" ELSE "redecoded"
    /\ UNCHANGED <<ty, EC, ED, val, out, config>>

Next == Encode \/ Decode

Spec == Init /\ [][Next]_vars

(***************************************************************************)
(* Properties of the primitive codec                                       *)
(***************************************************************************)
\* a class-32 address or offset: the types whose on-disk width is narrower
\* than the in-memory integer
NarrowOnDisk == ty \in {"ElfAddress", "ElfOffset"} /\ EC = ELF_CLASS_32

\* C1 (as stated): for every primitive type and every valid (class, encoding),
\* decoding the encoding of any value the type can hold gives that value back,
\* and encoding the decoding of any bytes of the type's length gives those
\* bytes back.
C1_RoundTripAnyValue ==
    /\ pc = "redecoded" => res.ok /\ res.val = val
    /\ pc = "reencoded" => res.ok /\ out = stream.data

\* C1 (amended): the value round trip holds for every value that fits the
\* type's on-disk width; a class-32 address or offset above 32 bits comes back
\* as its low 32 bits.  The byte round trip holds for all bytes.
C1_RoundTripFittingValue ==
    /\ pc = "redecoded" =>
         /\ res.ok
         /\ IF NarrowOnDisk
            THEN /\ res.val = <<val[1], val[2], 0, 0>>
                 /\ (val[3] = 0 /\ val[4] = 0) => res.val = val
            ELSE res.val = val
    /\ pc = "reencoded" => res.ok /\ out = stream.data

\* a class-32 address that fits 32 bits has gone through encode and decode
C1_Witness ==
    /\ pc = "redecoded" /\ NarrowOnDisk /\ ED = ELF_DATA_ENCODING_BIG_ENDIAN
    /\ val[1] # 0 /\ val[3] = 0 /\ val[4] = 0
    /\ res.ok /\ res.val = val

\* C8: a class-32 address or offset encodes to exactly 4 bytes and a class-64
\* one to exactly 8 bytes whatever the stored value; a class-32 value above 32
\* bits is written as its low 32 bits, without an error.
C8_AddressWidth ==
    (pc = "encoded" /\ ty \in {"ElfAddress", "ElfOffset"}) =>
        /\ res.ok
        /\ Len(out) = (IF EC = ELF_CLASS_32 THEN 4 ELSE 8)
        /\ EC = ELF_CLASS_32 =>
             LET low == <<val[1] % 256, val[1] \div 256, val[2] % 256, val[2] \div 256>>
             IN  out = IF ED = ELF_DATA_ENCODING_LITTLE_ENDIAN THEN low ELSE Reverse(low)

\* a class-32 address that does not fit 32 bits has been encoded
C8_Witness ==
    /\ pc = "encoded" /\ ty = "ElfAddress" /\ EC = ELF_CLASS_32
    /\ val[3] # 0 /\ val[4] # 0 /\ Len(out) = 4

\* the decode of the same bytes under the other data encoding
DecodeOtherEncoding ==
    Prim_from_reader_with(ty, EC,
        IF ED = ELF_DATA_ENCODING_LITTLE_ENDIAN
        THEN ELF_DATA_ENCODING_BIG_ENDIAN ELSE ELF_DATA_ENCODING_LITTLE_ENDIAN,
        Reader(stream.data, 0), config)

\* C9: for the bytes of a multi-byte primitive, the little-endian and the
\* big-endian decode give the same value only if the bytes are a palindrome;
\* <<1,2,3,4>> decodes as a word to 0x04030201 little-endian and to 0x01020304
\* big-endian.
C9_EndiannessDiffers ==
    (pc = "decoded" /\ ty # "ElfByte") =>
        /\ res.ok
        /\ res.val = DecodeOtherEncoding.val => stream.data = Reverse(stream.data)
        /\ (ty = "ElfWord" /\ stream.data = ExampleWordBytes) =>
             res.val = IF ED = ELF_DATA_ENCODING_LITTLE_ENDIAN
                       THEN <<\h0201, \h0403>> ELSE <<\h0304, \h0102>>

\* the example word has been decoded little-endian
C9_Witness ==
    /\ pc = "decoded" /\ ty = "ElfWord" /\ ED = ELF_DATA_ENCODING_LITTLE_ENDIAN
    /\ stream.data = ExampleWordBytes /\ res.ok

(***************************************************************************)
(* Specification of a short read: a primitive is decoded from a stream     *)
(* that ends before the primitive's last byte                              *)
(***************************************************************************)
\* the bytes the short streams are cut from
ExampleBytes == <<1, 2, 3, 4, 5, 6, 7, 8>>

\* an I/O error of another kind than the end of the stream
IoErrorOther == [kind |-> "Io", io |-> "Other"]

InitShortRead ==
    /\ ty \in PrimTypes
    /\ EC \in Classes
    /\ ED \in Encodings
    /\ pc = "short"
    /\ val = <<>>
    /\ \E k \in ReaderKinds, n \in 0..(DiskWidth(ty, EC) - 1) :
          stream = ReaderOf(k, SubSeq(ExampleBytes, 1, n), 0)
    /\ out = <<>>
    /\ res = NoResult
    /\ \E ig \in {{}, {IoError}, {IoErrorOther}} :
          config = [DefaultConfig EXCEPT !.ignore = ig]

\* T::from_reader_with(&mut reader, &mut config) on the short stream
DecodeShort ==
    /\ pc = "short"
    /\ LET r == Prim_from_reader_with(ty, EC, ED, stream, config) IN
       /\ res' = r
       /\ stream' = r.rd
    /\ pc' = "decoded"
    /\ UNCHANGED <<ty, EC, ED, val, out, config>>

NextShortRead == DecodeShort

SpecShortRead == InitShortRead /\ [][NextShortRead]_vars

(***************************************************************************)
(* Properties of a short read                                              *)
(***************************************************************************)
ShortDecoded == pc = "decoded" /\ ty \in PrimTypes

\* the zero of a primitive type
ZeroOf(t) == IF t = "ElfByte" THEN <<0>> ELSE Zeros(RawWidth(t) \div 2)

\* C16: a primitive decode that reaches the end of the stream before its
\* last byte fails with the I/O error of the platform's kind, unless the
\* ignore set holds that error: then it succeeds with the value zero.
C16_ShortReadFailsOrZero ==
    ShortDecoded =>
        IF IoError \in config.ignore
        THEN res.ok /\ res.val = ZeroOf(ty)
        ELSE ~res.ok /\ res.err = IoError

(***************************************************************************)
(* Error contexts (error/mod.rs)                                           *)
(***************************************************************************)
\* The loop of ErrorContext::from_reader_at: read_exact into the context
\* buffer, popping one byte from the buffer after every failure
RECURSIVE read_context(_, _)
read_context(rd, size) ==
    Let(read_exact(rd, size), LAMBDA r :
        IF r.ok THEN [context |-> r.buf, rd |-> r.rd]
        ELSE read_context(r.rd, size - 1))

\* ErrorContext::from_reader_at: seek to offset, then read the context
ErrorContext_from_reader_at(rd, offset, size) ==
    Let(read_context([rd EXCEPT !.pos = offset], size), LAMBDA c :
        Ok([offset |-> offset, context |-> c.context], c.rd))

\* u64::saturating_sub / usize::saturating_sub
saturating_sub(a, b) == IF a >= b THEN a - b ELSE 0

\* ErrorContext::from_reader: the context of the size bytes just read
ErrorContext_from_reader(rd, size) ==
    ErrorContext_from_reader_at(rd, saturating_sub(rd.pos, size), size)

(***************************************************************************)
(* The enumerations of the identification block and of the header          *)
(***************************************************************************)
\* cfg!(target_endian = "little") of the build that runs the codec
TargetLittleEndian == TRUE

\* uN::swap_bytes
swap_bytes(v) == from_be_bytes(to_le_bytes(v, 2 * Len(v)))

\* The mutant of to_le on a big-endian target, where it swaps the bytes
to_le_on_big_endian_target(v) == swap_bytes(v)

\* uN::to_le: the identity on a little-endian target, swap_bytes otherwise
to_le(v) == IF TargetLittleEndian THEN v ELSE swap_bytes(v)

\* ElfIdentifierVersion::from_u8: None = 0, Current = 1
ElfIdentifierVersion_from_u8(v) == IF v \in {0, 1} THEN Some(v) ELSE NoneOpt

\* The discriminants of ElfOSABI
ElfOSABIValues ==
    {0, 1, 2, 3, 6, 7, 8, 9, 10, 11, 12, 13, 14, 15, 16, 17, 18, 64, 65, 97, 255}

ElfOSABI_from_u8(v) == IF v \in ElfOSABIValues THEN Some(v) ELSE NoneOpt

\* ElfType::from_u16: None = 0 .. Core = 4
ElfType_from_u16(v) == IF v \in 0..4 THEN Some(v) ELSE NoneOpt

\* The discriminants of ElfMachine
ElfMachineValues ==
    (0..10) \cup {15} \cup (17..23) \cup (36..120) \cup (131..144)
    \cup (160..181) \cup {183} \cup (185..224) \cup {243, 247, 252, 258}

ElfMachine_from_u16(v) == IF v \in ElfMachineValues THEN Some(v) ELSE NoneOpt

\* ElfVersion::from_u32: None = 0, Current = 1
ElfVersion_from_u32(v) ==
    IF v[2] = 0 /\ v[1] \in {0, 1} THEN Some(v[1]) ELSE NoneOpt

\* The mutant of the class decode that accepts every class byte
ElfClass_from_reader_with_any(rd, cfg) ==
    Bind(ElfByte_from_reader_with(rd, cfg), LAMBDA b : Ok(b.val[1], b.rd))

\* ElfClass::from_reader_with
ElfClass_from_reader_with(rd, cfg) ==
    Bind(ElfByte_from_reader_with(rd, cfg), LAMBDA b :
        IF ElfClass_from_u8(b.val[1]).some THEN Ok(b.val[1], b.rd)
        ELSE Err([kind |-> "InvalidClass", class |-> b.val], b.rd))

\* ElfDataEncoding::from_reader_with
ElfDataEncoding_from_reader_with(rd, cfg) ==
    Bind(ElfByte_from_reader_with(rd, cfg), LAMBDA b :
        IF ElfDataEncoding_from_u8(b.val[1]).some THEN Ok(b.val[1], b.rd)
        ELSE Err([kind |-> "InvalidDataEncoding", encoding |-> b.val], b.rd))

\* ElfIdentifierVersion::from_reader_with
ElfIdentifierVersion_from_reader_with(rd, cfg) ==
    Bind(ElfByte_from_reader_with(rd, cfg), LAMBDA b :
        IF ElfIdentifierVersion_from_u8(b.val[1]).some THEN Ok(b.val[1], b.rd)
        ELSE Err([kind |-> "InvalidIdentifierVersion", version |-> b.val], b.rd))

\* ElfOSABI::from_reader_with
ElfOSABI_from_reader_with(rd, cfg) ==
    Bind(ElfByte_from_reader_with(rd, cfg), LAMBDA b :
        IF ElfOSABI_from_u8(b.val[1]).some THEN Ok(b.val[1], b.rd)
        ELSE Err([kind |-> "InvalidOsAbi", os_abi |-> b.val], b.rd))

\* ElfType::from_reader_with
ElfType_from_reader_with(ec, ed, rd, cfg) ==
    Bind(ElfHalfWord_from_reader_with(ec, ed, rd, cfg), LAMBDA r :
        IF ElfType_from_u16(r.val[1]).some THEN Ok(r.val[1], r.rd)
        ELSE Bind(ErrorContext_from_reader(r.rd, 2), LAMBDA c :
                Err([kind |-> "InvalidType", context |-> c.val], c.rd)))

\* ElfMachine::from_reader_with
ElfMachine_from_reader_with(ec, ed, rd, cfg) ==
    Bind(ElfHalfWord_from_reader_with(ec, ed, rd, cfg), LAMBDA r :
        IF ElfMachine_from_u16(r.val[1]).some THEN Ok(r.val[1], r.rd)
        ELSE Bind(ErrorContext_from_reader(r.rd, 2), LAMBDA c :
                Err([kind |-> "InvalidMachine", context |-> c.val], c.rd)))

\* ElfVersion::from_reader_with: an unrecognised version is an error unless
\* that error is in the ignore set, and then the version is None
ElfVersion_from_reader_with(ec, ed, rd, cfg) ==
    Bind(ElfWord_from_reader_with(ec, ed, rd, cfg), LAMBDA r :
        IF ElfVersion_from_u32(r.val).some THEN Ok(ElfVersion_from_u32(r.val).v, r.rd)
        ELSE Bind(ErrorContext_from_reader(r.rd, 4), LAMBDA c :
             Let([kind |-> "InvalidVersion", context |-> c.val], LAMBDA err :
                IF ignore_contains(cfg, err) THEN Ok(0, c.rd) ELSE Err(err, c.rd))))

\* to_writer of ElfClass, ElfDataEncoding, ElfIdentifierVersion and ElfOSABI:
\* ElfByte(*self as u8).to_writer(writer)
ByteEnum_to_writer(self, w) == ElfByte_to_writer(<<self>>, w)

\* ElfType::to_writer: ElfHalfWord((*self as u16).to_le()).to_writer(writer)
ElfType_to_writer(ec, ed, self, w) == ElfHalfWord_to_writer(ec, ed, to_le(<<self>>), w)

\* ElfMachine::to_writer
ElfMachine_to_writer(ec, ed, self, w) == ElfHalfWord_to_writer(ec, ed, to_le(<<self>>), w)

\* ElfVersion::to_writer: ElfWord((*self as u32).to_le()).to_writer(writer)
ElfVersion_to_writer(ec, ed, self, w) == ElfWord_to_writer(ec, ed, to_le(<<self, 0>>), w)

(***************************************************************************)
(* The identification block and the ELF header                             *)
(***************************************************************************)
\* T::from_reader_with for the field type named t
Field_from_reader_with(t, ec, ed, rd, cfg) ==
    CASE t = "ElfClass" -> ElfClass_from_reader_with(rd, cfg)
      [] t = "ElfDataEncoding" -> ElfDataEncoding_from_reader_with(rd, cfg)
      [] t = "ElfIdentifierVersion" -> ElfIdentifierVersion_from_reader_with(rd, cfg)
      [] t = "ElfOSABI" -> ElfOSABI_from_reader_with(rd, cfg)
      [] t = "ElfType" -> ElfType_from_reader_with(ec, ed, rd, cfg)
      [] t = "ElfMachine" -> ElfMachine_from_reader_with(ec, ed, rd, cfg)
      [] t = "ElfVersion" -> ElfVersion_from_reader_with(ec, ed, rd, cfg)
      [] OTHER -> Prim_from_reader_with(t, ec, ed, rd, cfg)

\* A run of `let x = T::from_reader_with(reader, config)?;` statements, one
\* per type of ts in order: all the values, or the first error
RECURSIVE ReadFields(_, _, _, _, _, _)
ReadFields(ts, ec, ed, rd, cfg, acc) ==
    IF ts = <<>> THEN Ok(acc, rd)
    ELSE Bind(Field_from_reader_with(Head(ts), ec, ed, rd, cfg), LAMBDA r :
            ReadFields(Tail(ts), ec, ed, r.rd, cfg, Append(acc, r.val)))

\* T::to_writer for the field [t |-> type, v |-> value]
Field_to_writer(f, ec, ed, w) ==
    CASE f.t \in {"ElfClass", "ElfDataEncoding", "ElfIdentifierVersion", "ElfOSABI"} ->
            ByteEnum_to_writer(f.v, w)
      [] f.t = "ElfType" -> ElfType_to_writer(ec, ed, f.v, w)
      [] f.t = "ElfMachine" -> ElfMachine_to_writer(ec, ed, f.v, w)
      [] f.t = "ElfVersion" -> ElfVersion_to_writer(ec, ed, f.v, w)
      [] OTHER -> Prim_to_writer(f.t, ec, ed, f.v, w)

\* A run of `x.to_writer(writer)?;` statements, one per field of fs in order
RECURSIVE WriteFields(_, _, _, _)
WriteFields(fs, ec, ed, w) ==
    IF fs = <<>> THEN Written(w, <<>>)
    ELSE Bind(Field_to_writer(Head(fs), ec, ed, w), LAMBDA r :
            WriteFields(Tail(fs), ec, ed, r.out))

\* a field to write: the name of its type and its value
Field(t, v) == [t |-> t, v |-> v]

\* ElfHeaderIdentifier::SIZE
ElfHeaderIdentifier_SIZE == 1 * 16

\* ElfHeaderIdentifier::from_reader_with: sixteen bytes in order, decoded the
\* same way whatever the class and data encoding
ElfHeaderIdentifier_from_reader_with(rd, cfg) ==
    Bind(ReadFields(
            <<"ElfByte", "ElfByte", "ElfByte", "ElfByte", "ElfClass",
              "ElfDataEncoding", "ElfIdentifierVersion", "ElfOSABI", "ElfByte",
              "ElfByte", "ElfByte", "ElfByte", "ElfByte", "ElfByte", "ElfByte",
              "ElfByte">>, 0, 0, rd, cfg, <<>>), LAMBDA r :
        Ok([magic |-> SubSeq(r.val, 1, 4),
            class |-> r.val[5],
            data_encoding |-> r.val[6],
            version |-> r.val[7],
            os_abi |-> r.val[8],
            abi_version |-> r.val[9],
            pad |-> SubSeq(r.val, 10, 16)], r.rd))

\* The mutant of the identifier encoder that writes the padding as zeros
ElfHeaderIdentifier_to_writer_zero_pad(self, w) ==
    WriteFields(
        [i \in 1..4 |-> Field("ElfByte", self.magic[i])]
        \o <<Field("ElfClass", self.class),
             Field("ElfDataEncoding", self.data_encoding),
             Field("ElfIdentifierVersion", self.version),
             Field("ElfOSABI", self.os_abi),
             Field("ElfByte", self.abi_version)>>
        \o [i \in 1..7 |-> Field("ElfByte", <<0>>)],
        0, 0, w)

\* ElfHeaderIdentifier::to_writer
ElfHeaderIdentifier_to_writer(self, w) ==
    WriteFields(
        [i \in 1..4 |-> Field("ElfByte", self.magic[i])]
        \o <<Field("ElfClass", self.class),
             Field("ElfDataEncoding", self.data_encoding),
             Field("ElfIdentifierVersion", self.version),
             Field("ElfOSABI", self.os_abi),
             Field("ElfByte", self.abi_version)>>
        \o [i \in 1..7 |-> Field("ElfByte", self.pad[i])],
        0, 0, w)

\* The mutant of ElfHeader::SIZE that takes the in-memory size of an address
\* or offset, 8 bytes, whatever the class
ElfHeader_SIZE_in_memory(ec) ==
    ElfHeaderIdentifier_SIZE + 2 + 2 + 4 + 8 + 8 + 8 + 4 + (2 * 6)

\* ElfHeader::SIZE: the size of the header less its data field
ElfHeader_SIZE(ec) ==
    ElfHeaderIdentifier_SIZE + 2 + 2 + 4 + AddressSize(ec) + AddressSize(ec)
    + AddressSize(ec) + 4 + (2 * 6)

\* The mutant of Result::ok() under which a zero value counts as absent
Result_ok_zero_absent(r) ==
    IF r.ok /\ r.val # <<0, 0, 0, 0>> THEN Some(r.val) ELSE NoneOpt

\* Result::ok(): the value of a success, None for a failure
Result_ok(r) == IF r.ok THEN Some(r.val) ELSE NoneOpt

\* The fields of ElfHeader::from_reader_with from flags on, and the header
\* built from them, given the results of the fields before
ElfHeader_from_flags(ec, ed, identifier, a, entrypoint, program_header_offset, section_header_offset, cfg) ==
    Bind(ReadFields(<<"ElfWord", "ElfHalfWord", "ElfHalfWord", "ElfHalfWord",
                      "ElfHalfWord", "ElfHalfWord", "ElfHalfWord">>,
                    ec, ed, section_header_offset.rd, cfg, <<>>), LAMBDA b :
    Bind(ReadFields([k \in 1..saturating_sub(b.val[2][1], ElfHeader_SIZE(ec)) |-> "ElfByte"],
                    ec, ed, b.rd, cfg, <<>>), LAMBDA data :
    Ok([identifier |-> identifier.val,
        type |-> a.val[1],
        machine |-> a.val[2],
        version |-> a.val[3],
        entrypoint |-> Result_ok(entrypoint),
        program_header_offset |-> Result_ok(program_header_offset),
        section_header_offset |-> Result_ok(section_header_offset),
        flags |-> b.val[1],
        header_size |-> b.val[2],
        program_header_entry_size |-> b.val[3],
        program_header_entry_count |-> b.val[4],
        section_header_entry_size |-> b.val[5],
        section_header_entry_count |-> b.val[6],
        section_name_string_table_index |-> b.val[7],
        data |-> data.val], data.rd)))

\* The mutant of ElfHeader::from_reader_with that propagates a failure of
\* the entry point or of an offset with `?`
ElfHeader_from_reader_with_propagating(ec, ed, rd, cfg) ==
    Bind(ElfHeaderIdentifier_from_reader_with(rd, cfg), LAMBDA identifier :
    Bind(ReadFields(<<"ElfType", "ElfMachine", "ElfVersion">>,
                    ec, ed, identifier.rd, cfg, <<>>), LAMBDA a :
    Bind(ElfAddress_from_reader_with(ec, ed, a.rd, cfg), LAMBDA entrypoint :
    Bind(ElfOffset_from_reader_with(ec, ed, entrypoint.rd, cfg),
         LAMBDA program_header_offset :
    Bind(ElfOffset_from_reader_with(ec, ed, program_header_offset.rd, cfg),
         LAMBDA section_header_offset :
    ElfHeader_from_flags(ec, ed, identifier, a, entrypoint, program_header_offset,
                         section_header_offset, cfg))))))

\* ElfHeader::from_reader_with.  The configuration is only read.
ElfHeader_from_reader_with(ec, ed, rd, cfg) ==
    Bind(ElfHeaderIdentifier_from_reader_with(rd, cfg), LAMBDA identifier :
    Bind(ReadFields(<<"ElfType", "ElfMachine", "ElfVersion">>,
                    ec, ed, identifier.rd, cfg, <<>>), LAMBDA a :
    Let(ElfAddress_from_reader_with(ec, ed, a.rd, cfg), LAMBDA entrypoint :
    Let(ElfOffset_from_reader_with(ec, ed, entrypoint.rd, cfg),
        LAMBDA program_header_offset :
    Let(ElfOffset_from_reader_with(ec, ed, program_header_offset.rd, cfg),
        LAMBDA section_header_offset :
    ElfHeader_from_flags(ec, ed, identifier, a, entrypoint, program_header_offset,
                         section_header_offset, cfg))))))

\* `if let Some(x) = field { x } else { zero }` of ElfHeader::to_writer
unwrap_or_zero(o) == IF o.some THEN o.v ELSE <<0, 0, 0, 0>>

\* The mutant of ElfHeader::to_writer that writes nothing for an absent
\* entry point or offset
ElfHeader_to_writer_omitting(ec, ed, self, w) ==
    Bind(ElfHeaderIdentifier_to_writer(self.identifier, w), LAMBDA i :
    WriteFields(
        <<Field("ElfType", self.type),
          Field("ElfMachine", self.machine),
          Field("ElfVersion", self.version)>>
        \o (IF self.entrypoint.some
            THEN <<Field("ElfAddress", self.entrypoint.v)>> ELSE <<>>)
        \o (IF self.program_header_offset.some
            THEN <<Field("ElfOffset", self.program_header_offset.v)>> ELSE <<>>)
        \o (IF self.section_header_offset.some
            THEN <<Field("ElfOffset", self.section_header_offset.v)>> ELSE <<>>)
        \o <<Field("ElfWord", self.flags),
             Field("ElfHalfWord", self.header_size),
             Field("ElfHalfWord", self.program_header_entry_size),
             Field("ElfHalfWord", self.program_header_entry_count),
             Field("ElfHalfWord", self.section_header_entry_size),
             Field("ElfHalfWord", self.section_header_entry_count),
             Field("ElfHalfWord", self.section_name_string_table_index)>>,
        ec, ed, i.out))

\* ElfHeader::to_writer: the fixed fields in order; the data field is not
\* written
ElfHeader_to_writer(ec, ed, self, w) ==
    Bind(ElfHeaderIdentifier_to_writer(self.identifier, w), LAMBDA i :
    WriteFields(
        <<Field("ElfType", self.type),
          Field("ElfMachine", self.machine),
          Field("ElfVersion", self.version),
          Field("ElfAddress", unwrap_or_zero(self.entrypoint)),
          Field("ElfOffset", unwrap_or_zero(self.program_header_offset)),
          Field("ElfOffset", unwrap_or_zero(self.section_header_offset)),
          Field("ElfWord", self.flags),
          Field("ElfHalfWord", self.header_size),
          Field("ElfHalfWord", self.program_header_entry_size),
          Field("ElfHalfWord", self.program_header_entry_count),
          Field("ElfHalfWord", self.section_header_entry_size),
          Field("ElfHalfWord", self.section_header_entry_count),
          Field("ElfHalfWord", self.section_name_string_table_index)>>,
        ec, ed, i.out))

(***************************************************************************)
(* Specification of the header codec: an identification block, a version   *)
(* field or a whole header is decoded from bytes and encoded again, or a   *)
(* header value is encoded and the bytes decoded again                     *)
(***************************************************************************)
\* the longest data tail of an input header
MaxTail == 1

\* the on-disk bytes of a half word, a word and an address under (ec, ed)
HalfBytes(ed, x) ==
    IF ed = ELF_DATA_ENCODING_LITTLE_ENDIAN THEN to_le_bytes(<<x>>, 2)
    ELSE to_be_bytes(<<x>>, 2)

WordBytes(ed, v) ==
    IF ed = ELF_DATA_ENCODING_LITTLE_ENDIAN THEN to_le_bytes(v, 4) ELSE to_be_bytes(v, 4)

AddressBytes(ec, ed, v) ==
    IF ec = ELF_CLASS_32 THEN WordBytes(ed, as_u32(v))
    ELSE IF ed = ELF_DATA_ENCODING_LITTLE_ENDIAN THEN to_le_bytes(v, 8)
    ELSE to_be_bytes(v, 8)

\* 0x7f 'E' 'L' 'F'
ElfMagic == <<127, 69, 76, 70>>

\* the sixteen bytes of an identification block
IdentBytes(magic, class, enc, version, os_abi, abi_version, pad) ==
    magic \o <<class, enc, version, os_abi, abi_version>> \o [k \in 1..7 |-> pad]

\* the bytes of a header described by its raw fields
HeaderBytes(ec, ed, r) ==
    IdentBytes(ElfMagic, r.class, ed, 1, r.os_abi, 0, 0)
    \o HalfBytes(ed, r.type) \o HalfBytes(ed, r.machine) \o WordBytes(ed, r.version)
    \o AddressBytes(ec, ed, r.entry) \o AddressBytes(ec, ed, r.phoff)
    \o AddressBytes(ec, ed, <<0, 0, 0, 0>>) \o WordBytes(ed, <<0, 0>>)
    \o HalfBytes(ed, r.size) \o HalfBytes(ed, 0) \o HalfBytes(ed, r.count)
    \o HalfBytes(ed, 0) \o HalfBytes(ed, r.count) \o HalfBytes(ed, 0)
    \o [k \in 1..r.tail |-> 170]

\* a well-formed header with no program and no section headers
BaseHeader(ec) ==
    [class |-> ec, os_abi |-> 0, type |-> 2, machine |-> 62, version |-> <<1, 0>>,
     entry |-> <<0, 0, 0, 0>>, phoff |-> <<0, 0, 0, 0>>, size |-> ElfHeader_SIZE(ec),
     count |-> 0, tail |-> 0]

\* the well-formed input headers
ValidHeaders(ec) ==
    {[BaseHeader(ec) EXCEPT !.type = t, !.machine = m, !.entry = e, !.phoff = p,
                            !.count = c, !.tail = k, !.size = ElfHeader_SIZE(ec) + k] :
        t \in {1, 2}, m \in {20, 62}, e \in {<<0, 0, 0, 0>>, <<\h0040, \h0040, 0, 0>>},
        p \in {<<0, 0, 0, 0>>, <<64, 0, 0, 0>>}, c \in {0, 1}, k \in 0..MaxTail}

\* input headers with one field that is out of the ordinary
OddHeaders(ec) ==
    {[BaseHeader(ec) EXCEPT !.class = 3],
     [BaseHeader(ec) EXCEPT !.os_abi = 4],
     [BaseHeader(ec) EXCEPT !.type = 5],
     [BaseHeader(ec) EXCEPT !.machine = 11],
     [BaseHeader(ec) EXCEPT !.version = <<2, 0>>],
     [BaseHeader(ec) EXCEPT !.version = <<1, 1>>],
     [BaseHeader(ec) EXCEPT !.size = ElfHeader_SIZE(ec) - 1],
     [BaseHeader(ec) EXCEPT !.size = ElfHeader_SIZE(ec) + MaxTail + 1]}

\* where an input header is cut short (0: not at all): within the version,
\* within the entry point, and 6 bytes after the start of the entry point
TruncatedAt == {0, 22, 26, 30}

\* the first n bytes of b, all of b when n = 0
Truncated(b, n) == IF n = 0 \/ n > Len(b) THEN b ELSE SubSeq(b, 1, n)

\* Error::InvalidVersion with a context at the given offset, as a caller
\* registers it in the ignore set
InvalidVersionAt(offset) ==
    [kind |-> "InvalidVersion", context |-> [offset |-> offset, context |-> <<>>]]

\* the header values that are encoded
HeaderValues(ec, ed) ==
    {[identifier |-> [magic |-> <<<<127>>, <<69>>, <<76>>, <<70>>>>, class |-> ec,
                      data_encoding |-> ed, version |-> 1, os_abi |-> 0,
                      abi_version |-> <<0>>, pad |-> [q \in 1..7 |-> <<0>>]],
      type |-> t, machine |-> m, version |-> v, entrypoint |-> e,
      program_header_offset |-> p, section_header_offset |-> s, flags |-> f,
      header_size |-> <<ElfHeader_SIZE(ec) + k>>,
      program_header_entry_size |-> <<0>>, program_header_entry_count |-> <<c>>,
      section_header_entry_size |-> <<0>>, section_header_entry_count |-> <<c>>,
      section_name_string_table_index |-> <<0>>,
      data |-> [j \in 1..k |-> <<170>>]] :
        t \in {2, 3}, m \in {8, 62}, v \in {0, 1},
        e \in {NoneOpt, Some(<<0, 0, 0, 0>>), Some(<<\h1000, \h0040, 0, 0>>),
               Some(<<0, 0, 1, 0>>)},
        p \in {NoneOpt, Some(<<64, 0, 0, 0>>)},
        s \in {Some(<<0, 0, 0, 0>>), Some(<<\h0200, 0, 0, \h8000>>)},
        f \in {<<0, 0>>, <<\h0203, \h1000>>}, c \in {0, 1}, k \in 0..MaxTail}

InitHeader ==
    /\ out = <<>>
    /\ res = NoResult
    /\ \/ \* a header value to encode
          /\ ty = "ElfHeader" /\ pc = "value"
          /\ EC \in Classes /\ ED \in Encodings
          /\ val \in HeaderValues(EC, ED)
          /\ stream = Reader(<<>>, 0)
          /\ config = DefaultConfig
       \/ \* the bytes of a header to decode, whole or cut short
          /\ ty = "ElfHeader" /\ pc = "bytes"
          /\ EC \in Classes /\ ED \in Encodings
          /\ val = <<>>
          /\ \E r \in ValidHeaders(EC) \cup OddHeaders(EC), n \in TruncatedAt,
                k \in ReaderKinds :
                /\ n = 0 => k = "Cursor"
                /\ stream = ReaderOf(k, Truncated(HeaderBytes(EC, ED, r), n), 0)
          /\ \E ig \in {{}, {InvalidVersionAt(20)}, {IoError}} :
                config = [DefaultConfig EXCEPT !.ignore = ig]
       \/ \* an identification block to decode, alone or followed by more bytes
          /\ ty = "ElfHeaderIdentifier" /\ pc = "bytes"
          /\ EC = ELF_CLASS_64 /\ ED = ELF_DATA_ENCODING_LITTLE_ENDIAN
          /\ val = <<>>
          /\ \E magic \in {ElfMagic, <<0, 0, 0, 0>>}, class \in 0..3, enc \in 1..3,
                version \in {1, 2}, os_abi \in {0, 3, 4, 255}, abi \in {0, 1},
                pad \in {0, 7}, more \in {<<>>, <<2, 0, 62, 0>>} :
                stream = Reader(IdentBytes(magic, class, enc, version, os_abi, abi, pad)
                                \o more, 0)
          /\ config = DefaultConfig
       \/ \* a version field to decode at some offset of a stream
          /\ ty = "ElfVersion" /\ pc = "bytes"
          /\ EC \in Classes /\ ED \in Encodings
          /\ val \in {0, 16, 20, 24}
          /\ \E v \in {<<0, 0>>, <<1, 0>>, <<2, 0>>, <<1, 1>>} :
                stream = Reader(Zeros(val) \o WordBytes(ED, v) \o <<0, 0>>, val)
          /\ \E ig \in {{}, {InvalidVersionAt(20)}, {InvalidVersionAt(16)}} :
                config = [DefaultConfig EXCEPT !.ignore = ig]

\* ElfHeader::from_reader(&mut Cursor::new(bytes)) of the given bytes, or of
\* the bytes just written; val keeps the header decoded from the given bytes
DecodeHeader ==
    /\ ty = "ElfHeader"
    /\ \/ pc = "bytes"
       \/ pc = "encoded" /\ res.ok
    /\ LET rd == IF pc = "bytes" THEN stream ELSE Reader(out, 0)
           r == ElfHeader_from_reader_with(EC, ED, rd, config)
       IN  /\ res' = r
           /\ stream' = r.rd
           /\ val' = IF pc = "bytes" /\ r.ok THEN r.val ELSE val
    /\ pc' = IF pc = "bytes" THEN "decoded" ELSE "redecoded"
    /\ UNCHANGED <<ty, EC, ED, out, config>>

\* header.to_writer(&mut out) of the given header, or of the header just
\* decoded
EncodeHeader ==
    /\ ty = "ElfHeader"
    /\ \/ pc = "value"
       \/ pc = "decoded" /\ res.ok
    /\ LET w == ElfHeader_to_writer(EC, ED, val, <<>>) IN
       /\ out' = w.out
       /\ res' = w
    /\ pc' = IF pc = "value" THEN "encoded" ELSE "reencoded"
    /\ UNCHANGED <<ty, EC, ED, val, stream, config>>

\* ElfHeaderIdentifier::from_reader_with of the given bytes
DecodeIdentifier ==
    /\ ty = "ElfHeaderIdentifier" /\ pc = "bytes"
    /\ LET r == ElfHeaderIdentifier_from_reader_with(stream, config) IN
       /\ res' = r
       /\ stream' = r.rd
       /\ val' = IF r.ok THEN r.val ELSE val
    /\ pc' = "decoded"
    /\ UNCHANGED <<ty, EC, ED, out, config>>

\* identifier.to_writer(&mut out) of the identifier just decoded
EncodeIdentifier ==
    /\ ty = "ElfHeaderIdentifier" /\ pc = "decoded" /\ res.ok
    /\ LET w == ElfHeaderIdentifier_to_writer(val, <<>>) IN
       /\ out' = w.out
       /\ res' = w
    /\ pc' = "reencoded"
    /\ UNCHANGED <<ty, EC, ED, val, stream, config>>

\* ElfVersion::from_reader_with at the stream's position
DecodeVersion ==
    /\ ty = "ElfVersion" /\ pc = "bytes"
    /\ LET r == ElfVersion_from_reader_with(EC, ED, stream, config) IN
       /\ res' = r
       /\ stream' = r.rd
    /\ pc' = "decoded"
    /\ UNCHANGED <<ty, EC, ED, val, out, config>>

NextHeader ==
    \/ DecodeHeader
    \/ EncodeHeader
    \/ DecodeIdentifier
    \/ EncodeIdentifier
    \/ DecodeVersion

SpecHeader == InitHeader /\ [][NextHeader]_vars

(***************************************************************************)
(* Properties of the header codec                                          *)
(***************************************************************************)
\* a header has been decoded from bytes with nothing ignored and encoded again
HeaderReencoded ==
    ty = "ElfHeader" /\ pc = "reencoded" /\ config.ignore = {}

UnknownVersionDecoded ==
    /\ ty = "ElfVersion" /\ pc = "decoded"
    /\ config.ignore = {InvalidVersionAt(20)}
    /\ SubSeq(stream.data, val + 1, val + 4) \notin
          {WordBytes(ED, <<0, 0>>), WordBytes(ED, <<1, 0>>)}

\* C5: with InvalidVersion at context offset 20 in the ignore set, only an
\* InvalidVersion raised at offset 20 is suppressed (the version decodes as
\* None); the same error raised at any other offset is returned, carrying the
\* offset it was raised at.
C5_IgnoreOnlyThatOffset ==
    UnknownVersionDecoded =>
        IF val = 20
        THEN res.ok /\ res.val = 0
        ELSE /\ ~res.ok
             /\ res.err.kind = "InvalidVersion"
             /\ res.err.context.offset = val
             /\ res.err.context.context = SubSeq(stream.data, val + 1, val + 4)

\* an unrecognised version at offset 24 has been returned as an error
C5_Witness ==
    /\ UnknownVersionDecoded
    /\ val = 24
    /\ ~res.ok /\ res.err.kind = "InvalidVersion"

\* an identification block whose class byte is 3 has been decoded
ClassThreeDecoded ==
    /\ ty = "ElfHeaderIdentifier" /\ pc = "decoded"
    /\ stream.data[5] = 3

\* C6: decoding an identification block whose class byte is 0x03 fails with
\* the invalid-class error carrying the raw value 3, and the reader is left
\* within the 16 bytes of the block.
C6_InvalidClassThree ==
    ClassThreeDecoded =>
        /\ ~res.ok
        /\ res.err = [kind |-> "InvalidClass", class |-> <<3>>]
        /\ stream.pos <= ElfHeaderIdentifier_SIZE

\* a block with class byte 3 that is followed by more bytes has failed
C6_Witness ==
    /\ ClassThreeDecoded
    /\ Len(stream.data) > ElfHeaderIdentifier_SIZE
    /\ ~res.ok /\ res.err.kind = "InvalidClass"
    /\ stream.pos = 5

\* a header value whose header_size is the fixed-field total and whose data
\* tail is empty has been encoded and the bytes decoded
FixedHeaderRedecoded ==
    /\ ty = "ElfHeader" /\ pc = "redecoded"
    /\ val.header_size = <<ElfHeader_SIZE(EC)>>
    /\ val.data = <<>>

Redecoded(o) ==
    IF ~o.some THEN Some(<<0, 0, 0, 0>>)
    ELSE IF EC = ELF_CLASS_32 THEN Some(<<o.v[1], o.v[2], 0, 0>>)
    ELSE o

HeaderDecoded == ty = "ElfHeader" /\ pc = "decoded"

\* C11: after a successful header decode config.machine holds the machine
\* read from the header.
C11_MachineWrittenToConfig ==
    (HeaderDecoded /\ res.ok) => config.machine = Some(res.val.machine)

\* the n bytes of the stream from offset from are all zero
ZeroOnDisk(from, n) ==
    /\ Len(stream.data) >= from + n
    /\ SubSeq(stream.data, from + 1, from + n) = Zeros(n)

\* C12: an entry point, program-header offset or section-header offset that
\* is zero on disk decodes as absent.
C12_ZeroDecodesAsAbsent ==
    (HeaderDecoded /\ res.ok /\ config.ignore = {}) =>
        /\ ZeroOnDisk(24, AddressSize(EC)) => res.val.entrypoint = NoneOpt
        /\ ZeroOnDisk(24 + AddressSize(EC), AddressSize(EC)) =>
              res.val.program_header_offset = NoneOpt
        /\ ZeroOnDisk(24 + 2 * AddressSize(EC), AddressSize(EC)) =>
              res.val.section_header_offset = NoneOpt

\* the stream of a decoded header ends within the entry point and the two
\* offsets, nothing is ignored and the fields before them were accepted
EndsInOptionalFields ==
    /\ HeaderDecoded
    /\ config.ignore = {}
    /\ Len(stream.data) >= 24
    /\ Len(stream.data) < 24 + 3 * AddressSize(EC)
    /\ res.ok \/ res.err = IoError

\* the position a reader that stays in place on a failed read is left at
\* when the optional fields that fit are read, the others are skipped, and
\* flags and the half words that fit are read after them
PositionWhenCaught ==
    LET len == Len(stream.data)
        p == 24 + AddressSize(EC) * ((len - 24) \div AddressSize(EC))
    IN  IF len - p < 4 THEN p
        ELSE (p + 4) + 2 * ((len - (p + 4)) \div 2)

HeaderEncoded == ty = "ElfHeader" /\ pc = "encoded"

\* the bytes of an optional address or offset: zeros when it is absent
OptionalBytes(o) ==
    IF o.some THEN AddressBytes(EC, ED, o.v) ELSE Zeros(AddressSize(EC))

\* C14: header encode writes the fields in decode order and as many bytes
\* (52 for class 32, 64 for class 64) whether or not the optional fields are
\* present: an absent one is written as a zero of the address width.
C14_EncodeLayout ==
    HeaderEncoded =>
        /\ res.ok
        /\ Len(out) = IF EC = ELF_CLASS_32 THEN 52 ELSE 64
        /\ out = [i \in 1..4 |-> val.identifier.magic[i][1]]
                 \o <<val.identifier.class, val.identifier.data_encoding,
                      val.identifier.version, val.identifier.os_abi,
                      val.identifier.abi_version[1]>>
                 \o [i \in 1..7 |-> val.identifier.pad[i][1]]
                 \o HalfBytes(ED, val.type) \o HalfBytes(ED, val.machine)
                 \o WordBytes(ED, <<val.version, 0>>)
                 \o OptionalBytes(val.entrypoint)
                 \o OptionalBytes(val.program_header_offset)
                 \o OptionalBytes(val.section_header_offset)
                 \o WordBytes(ED, val.flags)
                 \o HalfBytes(ED, val.header_size[1])
                 \o HalfBytes(ED, val.program_header_entry_size[1])
                 \o HalfBytes(ED, val.program_header_entry_count[1])
                 \o HalfBytes(ED, val.section_header_entry_size[1])
                 \o HalfBytes(ED, val.section_header_entry_count[1])
                 \o HalfBytes(ED, val.section_name_string_table_index[1])

\* a class-32 header with no entry point and no program-header offset has
\* been written in 52 bytes
C14_Witness ==
    /\ HeaderEncoded
    /\ EC = ELF_CLASS_32
    /\ val.entrypoint = NoneOpt /\ val.program_header_offset = NoneOpt
    /\ Len(out) = 52

\* C15: on every successful header decode the data tail is header_size less
\* the fixed-field total (52 for class 32, 64 for class 64) bytes long, and
\* empty when header_size is smaller than that total.
C15_TailLength ==
    (HeaderDecoded /\ res.ok) =>
        LET total == IF EC = ELF_CLASS_32 THEN 52 ELSE 64
            size == res.val.header_size[1]
        IN  Len(res.val.data) = IF size < total THEN 0 ELSE size - total

\* a header whose header_size is one less than the total has decoded with an
\* empty tail
C15_Witness ==
    /\ HeaderDecoded /\ res.ok
    /\ EC = ELF_CLASS_32
    /\ res.val.header_size = <<51>>
    /\ res.val.data = <<>>

\* an identification block whose class, data encoding, identifier version and
\* OS ABI bytes are recognised values has been decoded, or decoded and encoded
RecognisedIdentifier ==
    /\ ty = "ElfHeaderIdentifier" /\ pc \in {"decoded", "reencoded"}
    /\ ElfClass_from_u8(stream.data[5]).some
    /\ ElfDataEncoding_from_u8(stream.data[6]).some
    /\ ElfIdentifierVersion_from_u8(stream.data[7]).some
    /\ ElfOSABI_from_u8(stream.data[8]).some

\* C22: for any 16 bytes whose class, data encoding, identifier version and
\* OS ABI bytes are recognised values, the identification decode succeeds
\* whatever the magic, ABI version and padding bytes are and reads exactly 16
\* bytes, and encoding the decoded identifier writes the same 16 bytes.
C22_IdentifierVerbatim ==
    RecognisedIdentifier =>
        /\ res.ok
        /\ stream.pos = ElfHeaderIdentifier_SIZE
        /\ pc = "decoded" =>
              /\ res.val.magic = [i \in 1..4 |-> <<stream.data[i]>>]
              /\ res.val.abi_version = <<stream.data[9]>>
              /\ res.val.pad = [i \in 1..7 |-> <<stream.data[9 + i]>>]
        /\ pc = "reencoded" => out = SubSeq(stream.data, 1, ElfHeaderIdentifier_SIZE)

\* a block with a magic of zeros, ABI version 1 and padding bytes of 7,
\* followed by more bytes, has been decoded and encoded
C22_Witness ==
    /\ RecognisedIdentifier /\ pc = "reencoded"
    /\ SubSeq(stream.data, 1, 4) = <<0, 0, 0, 0>>
    /\ stream.data[9] = 1 /\ stream.data[16] = 7
    /\ Len(stream.data) > ElfHeaderIdentifier_SIZE
    /\ Len(out) = ElfHeaderIdentifier_SIZE

\* C23: for a header decoded from bytes whose header_size exceeds the
\* fixed-field total, encoding the decoded header writes header_size bytes in
\* all, the fixed fields followed by the bytes of the data tail, so that
\* decoding and encoding reproduces the header bytes, tail included.
C23_TailRoundTrip ==
    (HeaderReencoded /\ val.header_size[1] > ElfHeader_SIZE(EC)) =>
        /\ res.ok
        /\ Len(out) = val.header_size[1]
        /\ out = SubSeq(stream.data, 1, val.header_size[1])

\* the header decode failed with an error that carries an ErrorContext
ContextErrorReturned == HeaderDecoded /\ ~res.ok /\ res.err.kind \in ContextKinds

\* where the field the error is about starts in an ELF header
FieldStart ==
    CASE res.err.kind = "InvalidType" -> 16
      [] res.err.kind = "InvalidMachine" -> 18
      [] res.err.kind = "InvalidVersion" -> 20

\* the size of the field the error is about
FieldSize == IF res.err.kind = "InvalidVersion" THEN 4 ELSE 2

\* the bytes the stream holds from offset start, size of them at most
StreamBytes(start, size) ==
    SubSeq(stream.data, start + 1,
           IF start + size <= Len(stream.data) THEN start + size ELSE Len(stream.data))

\* C27: when the type, machine or version field of an ELF header holds an
\* unrecognised value, the error returned carries a context whose offset is
\* the offset at which the field starts (16, 18 and 20) and whose bytes are
\* the bytes of the field as the stream holds them; a version decoded alone
\* at some offset of a stream gives that offset and the field's bytes.
C27_ContextAtField ==
    /\ ContextErrorReturned =>
          /\ res.err.context.offset = FieldStart
          /\ res.err.context.context = StreamBytes(FieldStart, FieldSize)
    /\ (ty = "ElfVersion" /\ pc = "decoded" /\ ~res.ok) =>
          /\ res.err.kind = "InvalidVersion"
          /\ res.err.context.offset = val
          /\ res.err.context.context = StreamBytes(val, 4)

(***************************************************************************)
(* Section header types: the generic constants, the operating system and   *)
(* architecture tables, and the dispatch on the value's range              *)
(***************************************************************************)
ElfMachine_I386 == 3

ElfMachine_MIPS == 8

ElfMachine_MIPS_RS3_LE == 10

ElfMachine_PARISC == 15

ElfMachine_PPC == 20

ElfMachine_ARM == 40

ElfMachine_MIPS_X == 51

ElfMachine_X86_64 == 62

ElfMachine_AARCH64 == 183

ElfMachine_Riscv == 243

ElfOSABI_GnuLinux == 3

ElfOSABI_Solaris == 6

\* a < b on u32
u32_lt(a, b) == a[2] < b[2] \/ (a[2] = b[2] /\ a[1] < b[1])

\* (start..end).contains(&x): a Rust range excludes its end
Range_contains(start, end, x) == ~u32_lt(x, start) /\ u32_lt(x, end)

\* Result of a conversion that reads no stream
Converted(v) == [ok |-> TRUE, val |-> v]

Refused(e) == [ok |-> FALSE, err |-> e]

\* Result::map(Self::Variant): a variant is its tag and the value it wraps
Variant(tag, r) == IF r.ok THEN Converted([tag |-> tag, v |-> r.val]) ELSE r

\* The arm of a match that takes the value; an arm <<constant, variant>> is
\* `Self::CONSTANT => Ok(Self::Variant)`
HasArm(arms, value) == \E a \in arms : a[1] = value

ArmOf(arms, value) == (CHOOSE a \in arms : a[1] = value)[2]

\* The body shared by the architecture tables: the machine gate first, then
\* the match on the value
MachineTable(machines, expected, arms, value, cfg) ==
    IF ~(cfg.machine.some /\ cfg.machine.v \in machines)
    THEN Refused([kind |-> "InvalidMachineForSectionHeaderType",
                  machine |-> cfg.machine, expected_machines |-> expected,
                  value |-> value])
    ELSE IF HasArm(arms, value) THEN Converted(ArmOf(arms, value))
    ELSE Refused([kind |-> "InvalidSectionHeaderType", machine |-> cfg.machine,
                  value |-> value])

\* The body shared by the operating system tables
OsAbiTable(os_abi, arms, value, cfg) ==
    IF ~(cfg.os_abi.some /\ cfg.os_abi.v = os_abi)
    THEN Refused([kind |-> "InvalidOsAbiForSectionHeaderType", os_abi |-> cfg.os_abi,
                  expected_os_abis |-> <<os_abi>>, value |-> value])
    ELSE IF HasArm(arms, value) THEN Converted(ArmOf(arms, value))
    ELSE Refused([kind |-> "InvalidSectionHeaderType", machine |-> cfg.machine,
                  value |-> value])

\* `value as u32` of a #[repr(u32)] enum: the discriminant its declaration
\* gives the variant; a declaration is the set of <<variant, discriminant>>
enum_as_u32(enum, value) == (CHOOSE d \in enum : d[1] = value)[2]

ElfSectionHeaderTypeGNU_enum ==
    {<<"IncrementalInputs", <<\h4700, \h6fff>>>>, <<"Attributes", <<\hfff5, \h6fff>>>>,
     <<"Hash", <<\hfff6, \h6fff>>>>, <<"LibList", <<\hfff7, \h6fff>>>>,
     <<"VerDef", <<\hfffd, \h6fff>>>>, <<"VerNeed", <<\hfffe, \h6fff>>>>,
     <<"VerSym", <<\hffff, \h6fff>>>>}

ElfSectionHeaderTypeGNU_try_from_with(value, cfg) ==
    OsAbiTable(ElfOSABI_GnuLinux,
               {<<<<\h4700, \h6fff>>, "IncrementalInputs">>,
                <<<<\hfff5, \h6fff>>, "Attributes">>, <<<<\hfff6, \h6fff>>, "Hash">>,
                <<<<\hfff7, \h6fff>>, "LibList">>, <<<<\hfffd, \h6fff>>, "VerDef">>,
                <<<<\hfffe, \h6fff>>, "VerNeed">>, <<<<\hffff, \h6fff>>, "VerSym">>},
               value, cfg)

ElfSectionHeaderTypeSUN_enum ==
    {<<"VerDef", <<\hfffd, \h6fff>>>>, <<"VerNeed", <<\hfffe, \h6fff>>>>,
     <<"VerSym", <<\hffff, \h6fff>>>>}

ElfSectionHeaderTypeSUN_try_from_with(value, cfg) ==
    OsAbiTable(ElfOSABI_Solaris,
               {<<<<\hfffd, \h6fff>>, "VerDef">>, <<<<\hfffe, \h6fff>>, "VerNeed">>,
                <<<<\hffff, \h6fff>>, "VerSym">>},
               value, cfg)

ElfSectionHeaderTypeAARCH64_enum ==
    {<<"Attributes", <<3, \h7000>>>>}

ElfSectionHeaderTypeAARCH64_try_from_with(value, cfg) ==
    MachineTable({ElfMachine_AARCH64},
                 <<ElfMachine_AARCH64>>,
                 {<<<<3, \h7000>>, "Attributes">>},
                 value, cfg)

ElfSectionHeaderTypeARM32_enum ==
    {<<"ExIdx", <<1, \h7000>>>>, <<"PreemptMap", <<2, \h7000>>>>,
     <<"Attributes", <<3, \h7000>>>>, <<"DebugOverlay", <<4, \h7000>>>>,
     <<"Overlay", <<5, \h7000>>>>}

\* the ARM32 table has no machine gate
ElfSectionHeaderTypeARM32_try_from_with(value, cfg) ==
    LET arms == {<<<<1, \h7000>>, "ExIdx">>, <<<<2, \h7000>>, "PreemptMap">>,
                 <<<<3, \h7000>>, "Attributes">>, <<<<4, \h7000>>, "DebugOverlay">>,
                 <<<<5, \h7000>>, "Overlay">>} IN
    IF HasArm(arms, value) THEN Converted(ArmOf(arms, value))
    ELSE Refused([kind |-> "InvalidSectionHeaderTypeARM32", value |-> value])

ElfSectionHeaderTypeI386_enum ==
    {<<"Unwind", <<1, \h7000>>>>}

ElfSectionHeaderTypeI386_try_from_with(value, cfg) ==
    MachineTable({ElfMachine_I386},
                 <<ElfMachine_I386>>,
                 {<<<<1, \h7000>>, "Unwind">>},
                 value, cfg)

ElfSectionHeaderTypeMIPS_enum ==
    {<<"LibList", <<0, \h7000>>>>, <<"Conflict", <<2, \h7000>>>>,
     <<"GpTable", <<3, \h7000>>>>, <<"UCode", <<4, \h7000>>>>, <<"Debug", <<5, \h7000>>>>,
     <<"RegInfo", <<6, \h7000>>>>, <<"Package", <<7, \h7000>>>>,
     <<"PackSym", <<8, \h7000>>>>, <<"RelD", <<9, \h7000>>>>, <<"IFace", <<11, \h7000>>>>,
     <<"Content", <<12, \h7000>>>>, <<"Options", <<13, \h7000>>>>,
     <<"Shdr", <<16, \h7000>>>>, <<"FDesc", <<17, \h7000>>>>,
     <<"ExtSym", <<18, \h7000>>>>, <<"Dense", <<19, \h7000>>>>,
     <<"PDesc", <<20, \h7000>>>>, <<"LocSym", <<21, \h7000>>>>,
     <<"AuxSym", <<22, \h7000>>>>, <<"OptSym", <<23, \h7000>>>>,
     <<"LocStr", <<24, \h7000>>>>, <<"Line", <<25, \h7000>>>>,
     <<"RfdDesc", <<26, \h7000>>>>, <<"DeltaSYm", <<27, \h7000>>>>,
     <<"DeltaInst", <<28, \h7000>>>>, <<"DeltaClass", <<29, \h7000>>>>,
     <<"Dwarf", <<30, \h7000>>>>, <<"DeltaDecl", <<31, \h7000>>>>,
     <<"SymbolLib", <<32, \h7000>>>>, <<"Events", <<33, \h7000>>>>,
     <<"Translate", <<34, \h7000>>>>, <<"Pixie", <<35, \h7000>>>>,
     <<"XLate", <<36, \h7000>>>>, <<"XLateDebug", <<37, \h7000>>>>,
     <<"Whirl", <<38, \h7000>>>>, <<"EhRegion", <<39, \h7000>>>>,
     <<"XLateOld", <<40, \h7000>>>>, <<"PdrException", <<41, \h7000>>>>,
     <<"AbiFlags", <<42, \h7000>>>>, <<"XHash", <<43, \h7000>>>>}

ElfSectionHeaderTypeMIPS_try_from_with(value, cfg) ==
    MachineTable({ElfMachine_MIPS, ElfMachine_MIPS_RS3_LE, ElfMachine_MIPS_X},
                 <<ElfMachine_MIPS>>,
                 {<<<<0, \h7000>>, "LibList">>, <<<<2, \h7000>>, "Conflict">>,
                 <<<<3, \h7000>>, "GpTable">>, <<<<4, \h7000>>, "UCode">>,
                 <<<<5, \h7000>>, "Debug">>, <<<<6, \h7000>>, "RegInfo">>,
                 <<<<7, \h7000>>, "Package">>, <<<<8, \h7000>>, "PackSym">>,
                 <<<<9, \h7000>>, "RelD">>, <<<<11, \h7000>>, "IFace">>,
                 <<<<12, \h7000>>, "Content">>, <<<<13, \h7000>>, "Options">>,
                 <<<<16, \h7000>>, "Shdr">>, <<<<17, \h7000>>, "FDesc">>,
                 <<<<18, \h7000>>, "ExtSym">>, <<<<19, \h7000>>, "Dense">>,
                 <<<<20, \h7000>>, "PDesc">>, <<<<21, \h7000>>, "LocSym">>,
                 <<<<22, \h7000>>, "AuxSym">>, <<<<23, \h7000>>, "OptSym">>,
                 <<<<24, \h7000>>, "LocStr">>, <<<<25, \h7000>>, "Line">>,
                 <<<<26, \h7000>>, "RfdDesc">>, <<<<27, \h7000>>, "DeltaSYm">>,
                 <<<<28, \h7000>>, "DeltaInst">>, <<<<29, \h7000>>, "DeltaClass">>,
                 <<<<30, \h7000>>, "Dwarf">>, <<<<31, \h7000>>, "DeltaDecl">>,
                 <<<<32, \h7000>>, "SymbolLib">>, <<<<33, \h7000>>, "Events">>,
                 <<<<34, \h7000>>, "Translate">>, <<<<35, \h7000>>, "Pixie">>,
                 <<<<36, \h7000>>, "XLate">>, <<<<37, \h7000>>, "XLateDebug">>,
                 <<<<38, \h7000>>, "Whirl">>, <<<<39, \h7000>>, "EhRegion">>,
                 <<<<40, \h7000>>, "XLateOld">>, <<<<41, \h7000>>, "PdrException">>,
                 <<<<42, \h7000>>, "AbiFlags">>, <<<<43, \h7000>>, "XHash">>},
                 value, cfg)

ElfSectionHeaderTypePARISC_enum ==
    {<<"PariscExt", <<0, \h7000>>>>, <<"PariscUnwind", <<1, \h7000>>>>,
     <<"PariscDoc", <<2, \h7000>>>>, <<"PariscAnnot", <<3, \h7000>>>>,
     <<"PariscDlkm", <<4, \h7000>>>>, <<"PariscSymextn", <<8, \h7000>>>>,
     <<"PariscStubs", <<9, \h7000>>>>, <<"HpOvlbits", <<0, \h6000>>>>,
     <<"HpDlkm", <<1, \h6000>>>>, <<"HpComdat", <<2, \h6000>>>>,
     <<"HpObjdict", <<3, \h6000>>>>, <<"HpAnnot", <<4, \h6000>>>>}

ElfSectionHeaderTypePARISC_try_from_with(value, cfg) ==
    MachineTable({ElfMachine_PARISC},
                 <<ElfMachine_PARISC>>,
                 {<<<<0, \h7000>>, "PariscExt">>, <<<<1, \h7000>>, "PariscUnwind">>,
                 <<<<2, \h7000>>, "PariscDoc">>, <<<<3, \h7000>>, "PariscAnnot">>,
                 <<<<4, \h7000>>, "PariscDlkm">>, <<<<8, \h7000>>, "PariscSymextn">>,
                 <<<<9, \h7000>>, "PariscStubs">>, <<<<0, \h6000>>, "HpOvlbits">>,
                 <<<<1, \h6000>>, "HpDlkm">>, <<<<2, \h6000>>, "HpComdat">>,
                 <<<<3, \h6000>>, "HpObjdict">>, <<<<4, \h6000>>, "HpAnnot">>},
                 value, cfg)

ElfSectionHeaderTypePPC_enum ==
    {<<"Ordered", <<\hffff, \h7fff>>>>}

\* The mutant of the PPC table that knows 0x70000001, as the i386 table does
ElfSectionHeaderTypePPC_try_from_with_unwind(value, cfg) ==
    MachineTable({ElfMachine_PPC}, <<ElfMachine_PPC>>,
                 {<<<<\hffff, \h7fff>>, "Ordered">>, <<<<1, \h7000>>, "Unwind">>},
                 value, cfg)

ElfSectionHeaderTypePPC_try_from_with(value, cfg) ==
    MachineTable({ElfMachine_PPC},
                 <<ElfMachine_PPC>>,
                 {<<<<\hffff, \h7fff>>, "Ordered">>},
                 value, cfg)

ElfSectionHeaderTypeRISCV_enum ==
    {<<"Attributes", <<3, \h7000>>>>}

ElfSectionHeaderTypeRISCV_try_from_with(value, cfg) ==
    MachineTable({ElfMachine_Riscv},
                 <<ElfMachine_Riscv>>,
                 {<<<<3, \h7000>>, "Attributes">>},
                 value, cfg)

ElfSectionHeaderTypeX86_64_enum ==
    {<<"Unwind", <<1, \h7000>>>>}

ElfSectionHeaderTypeX86_64_try_from_with(value, cfg) ==
    MachineTable({ElfMachine_X86_64},
                 <<ElfMachine_X86_64>>,
                 {<<<<1, \h7000>>, "Unwind">>},
                 value, cfg)


\* The arms of the generic constants in ElfSectionHeaderType::from_reader_with
ElfSectionHeaderType_generic_arms ==
    {<<<<0, 0>>, "NullUndefined">>, <<<<1, 0>>, "ProgramBits">>,
     <<<<2, 0>>, "SymbolTable">>, <<<<3, 0>>, "StringTable">>,
     <<<<4, 0>>, "RelocationExplicit">>, <<<<5, 0>>, "Hash">>, <<<<6, 0>>, "Dynamic">>,
     <<<<7, 0>>, "Note">>, <<<<8, 0>>, "NoBits">>, <<<<9, 0>>, "RelocationImplicit">>,
     <<<<10, 0>>, "SectionHeaderLibrary">>, <<<<11, 0>>, "DynamicSymbol">>,
     <<<<14, 0>>, "InitializerArray">>, <<<<15, 0>>, "FinalizerArray">>,
     <<<<16, 0>>, "PreInitializerArray">>, <<<<17, 0>>, "Group">>,
     <<<<18, 0>>, "SymbolTableSectionHeaderIndex">>, <<<<19, 0>>, "RelR">>}

\* The constant ElfSectionHeaderType::to_writer writes for each generic variant
ElfSectionHeaderType_generic_written ==
    {<<"NullUndefined", <<0, 0>>>>, <<"ProgramBits", <<1, 0>>>>,
     <<"SymbolTable", <<2, 0>>>>, <<"StringTable", <<3, 0>>>>,
     <<"RelocationExplicit", <<4, 0>>>>, <<"Hash", <<5, 0>>>>, <<"Dynamic", <<6, 0>>>>,
     <<"Note", <<7, 0>>>>, <<"NoBits", <<8, 0>>>>, <<"RelocationImplicit", <<9, 0>>>>,
     <<"SectionHeaderLibrary", <<10, 0>>>>, <<"DynamicSymbol", <<11, 0>>>>,
     <<"InitializerArray", <<14, 0>>>>, <<"FinalizerArray", <<15, 0>>>>,
     <<"PreInitializerArray", <<16, 0>>>>, <<"Group", <<17, 0>>>>,
     <<"SymbolTableSectionHeaderIndex", <<18, 0>>>>, <<"RelR", <<19, 0>>>>}

LOW_OPERATING_SYSTEM == <<0, \h6000>>

HIGH_OPERATING_SYSTEM == <<\hffff, \h6fff>>

LOW_PROCESSOR_SPECIFIC == <<0, \h7000>>

HIGH_PROCESSOR_SPECIFIC == <<\hffff, \h7fff>>

\* a.or_else(|_| b): a when it succeeded, else b
or_else(a, b) == IF a.ok THEN a ELSE b

\* The match of ElfSectionHeaderType::from_reader_with on the word read
ElfSectionHeaderType_match(type, cfg) ==
    IF HasArm(ElfSectionHeaderType_generic_arms, type)
    THEN Converted([tag |-> "Generic",
                    v |-> ArmOf(ElfSectionHeaderType_generic_arms, type)])
    ELSE IF Range_contains(LOW_OPERATING_SYSTEM, HIGH_OPERATING_SYSTEM, type)
    THEN or_else(Variant("Gnu", ElfSectionHeaderTypeGNU_try_from_with(type, cfg)),
         or_else(Variant("Sun", ElfSectionHeaderTypeSUN_try_from_with(type, cfg)),
                 Converted([tag |-> "OtherOperatingSystemSpecific", v |-> type])))
    ELSE IF Range_contains(LOW_PROCESSOR_SPECIFIC, HIGH_PROCESSOR_SPECIFIC, type)
    THEN CASE cfg.machine = Some(ElfMachine_AARCH64) ->
                Variant("AARCH64", ElfSectionHeaderTypeAARCH64_try_from_with(type, cfg))
           [] cfg.machine = Some(ElfMachine_ARM) ->
                Variant("Arm", ElfSectionHeaderTypeARM32_try_from_with(type, cfg))
           [] cfg.machine = Some(ElfMachine_I386) ->
                Variant("I386", ElfSectionHeaderTypeI386_try_from_with(type, cfg))
           [] cfg.machine = Some(ElfMachine_MIPS) ->
                Variant("Mips", ElfSectionHeaderTypeMIPS_try_from_with(type, cfg))
           [] cfg.machine = Some(ElfMachine_PARISC) ->
                Variant("PaRisc", ElfSectionHeaderTypePARISC_try_from_with(type, cfg))
           [] cfg.machine = Some(ElfMachine_PPC) ->
                Variant("Ppc", ElfSectionHeaderTypePPC_try_from_with(type, cfg))
           [] cfg.machine = Some(ElfMachine_Riscv) ->
                Variant("Riscv", ElfSectionHeaderTypeRISCV_try_from_with(type, cfg))
           [] cfg.machine = Some(ElfMachine_X86_64) ->
                Variant("X86_64", ElfSectionHeaderTypeX86_64_try_from_with(type, cfg))
           [] OTHER -> Converted([tag |-> "OtherProcessorSpecific", v |-> type])
    ELSE Converted([tag |-> "Other", v |-> type])

\* ElfSectionHeaderType::from_reader_with
ElfSectionHeaderType_from_reader_with(ec, ed, rd, cfg) ==
    Bind(ElfWord_from_reader_with(ec, ed, rd, cfg), LAMBDA type :
    Let(ElfSectionHeaderType_match(type.val, cfg), LAMBDA m :
        IF m.ok THEN Ok(m.val, type.rd) ELSE Err(m.err, type.rd)))

\* From<&ElfSectionHeaderTypeARM32> for ElfWord
ElfWord_from_ElfSectionHeaderTypeARM32(value) ==
    enum_as_u32(ElfSectionHeaderTypeARM32_enum, value)

\* The mutant of to_writer that writes the low bound of the variant's range
\* (zero outside the two reserved ranges) in place of the discriminant or of
\* the word the variant holds
ElfSectionHeaderType_to_writer_low_bound(ec, ed, self, w) ==
    CASE self.tag = "OtherProcessorSpecific" ->
            ElfWord_to_writer(ec, ed, LOW_PROCESSOR_SPECIFIC, w)
      [] self.tag = "OtherOperatingSystemSpecific" ->
            ElfWord_to_writer(ec, ed, LOW_OPERATING_SYSTEM, w)
      [] OTHER -> ElfWord_to_writer(ec, ed, <<0, 0>>, w)

\* ElfSectionHeaderType::to_writer
ElfSectionHeaderType_to_writer(ec, ed, self, w) ==
    CASE self.tag = "Generic" ->
            ElfWord_to_writer(ec, ed,
                enum_as_u32(ElfSectionHeaderType_generic_written, self.v), w)
      [] self.tag = "AARCH64" ->
            ElfWord_to_writer(ec, ed, enum_as_u32(ElfSectionHeaderTypeAARCH64_enum, self.v), w)
      [] self.tag = "Arm" ->
            ElfWord_to_writer(ec, ed, ElfWord_from_ElfSectionHeaderTypeARM32(self.v), w)
      [] self.tag = "I386" ->
            ElfWord_to_writer(ec, ed, enum_as_u32(ElfSectionHeaderTypeI386_enum, self.v), w)
      [] self.tag = "Mips" ->
            ElfWord_to_writer(ec, ed, enum_as_u32(ElfSectionHeaderTypeMIPS_enum, self.v), w)
      [] self.tag = "PaRisc" ->
            ElfWord_to_writer(ec, ed, enum_as_u32(ElfSectionHeaderTypePARISC_enum, self.v), w)
      [] self.tag = "Ppc" ->
            ElfWord_to_writer(ec, ed, enum_as_u32(ElfSectionHeaderTypePPC_enum, self.v), w)
      [] self.tag = "Riscv" ->
            ElfWord_to_writer(ec, ed, enum_as_u32(ElfSectionHeaderTypeRISCV_enum, self.v), w)
      [] self.tag = "X86_64" ->
            ElfWord_to_writer(ec, ed, enum_as_u32(ElfSectionHeaderTypeX86_64_enum, self.v), w)
      [] self.tag = "OtherProcessorSpecific" -> ElfWord_to_writer(ec, ed, self.v, w)
      [] self.tag = "Gnu" ->
            ElfWord_to_writer(ec, ed, enum_as_u32(ElfSectionHeaderTypeGNU_enum, self.v), w)
      [] self.tag = "Sun" ->
            ElfWord_to_writer(ec, ed, enum_as_u32(ElfSectionHeaderTypeSUN_enum, self.v), w)
      [] self.tag = "OtherOperatingSystemSpecific" -> ElfWord_to_writer(ec, ed, self.v, w)
      [] self.tag = "Other" -> ElfWord_to_writer(ec, ed, self.v, w)

(***************************************************************************)
(* Specification of the section header type decode: a word is decoded      *)
(* under a configuration, or handed to one table directly                  *)
(***************************************************************************)
\* the words decoded: generic constants, the boundaries of the two reserved
\* ranges and constants of the tables
SectionTypeWords ==
    {<<0, 0>>, <<1, 0>>, <<12, 0>>, <<19, 0>>, <<20, 0>>,
     <<\hffff, \h5fff>>, <<0, \h6000>>, <<1, \h6000>>, <<\h4700, \h6fff>>,
     <<\hfff5, \h6fff>>, <<\hfff6, \h6fff>>, <<\hfff7, \h6fff>>, <<\hfffd, \h6fff>>,
     <<\hfffe, \h6fff>>, <<\hffff, \h6fff>>,
     <<0, \h7000>>, <<1, \h7000>>, <<2, \h7000>>, <<3, \h7000>>, <<10, \h7000>>,
     <<43, \h7000>>, <<\hfffe, \h7fff>>, <<\hffff, \h7fff>>, <<0, \h8000>>,
     <<\hffff, \hffff>>}

\* the machines and OS ABIs a configuration holds
ConfigMachines ==
    {NoneOpt} \cup {Some(m) : m \in {ElfMachine_I386, 4, ElfMachine_MIPS,
        ElfMachine_MIPS_RS3_LE, ElfMachine_PARISC, ElfMachine_PPC, ElfMachine_ARM,
        ElfMachine_X86_64, ElfMachine_AARCH64, ElfMachine_Riscv}}

ConfigOsAbis == {NoneOpt, Some(0), Some(ElfOSABI_GnuLinux), Some(ElfOSABI_Solaris)}

SectionTables ==
    {"ElfSectionHeaderTypeGNU", "ElfSectionHeaderTypeSUN", "ElfSectionHeaderTypeAARCH64",
     "ElfSectionHeaderTypeARM32", "ElfSectionHeaderTypeI386", "ElfSectionHeaderTypeMIPS",
     "ElfSectionHeaderTypePARISC", "ElfSectionHeaderTypePPC", "ElfSectionHeaderTypeRISCV",
     "ElfSectionHeaderTypeX86_64"}

\* T::try_from_with for the table named t
Table_try_from_with(t, value, cfg) ==
    CASE t = "ElfSectionHeaderTypeGNU" -> ElfSectionHeaderTypeGNU_try_from_with(value, cfg)
      [] t = "ElfSectionHeaderTypeSUN" -> ElfSectionHeaderTypeSUN_try_from_with(value, cfg)
      [] t = "ElfSectionHeaderTypeAARCH64" ->
            ElfSectionHeaderTypeAARCH64_try_from_with(value, cfg)
      [] t = "ElfSectionHeaderTypeARM32" -> ElfSectionHeaderTypeARM32_try_from_with(value, cfg)
      [] t = "ElfSectionHeaderTypeI386" -> ElfSectionHeaderTypeI386_try_from_with(value, cfg)
      [] t = "ElfSectionHeaderTypeMIPS" -> ElfSectionHeaderTypeMIPS_try_from_with(value, cfg)
      [] t = "ElfSectionHeaderTypePARISC" ->
            ElfSectionHeaderTypePARISC_try_from_with(value, cfg)
      [] t = "ElfSectionHeaderTypePPC" -> ElfSectionHeaderTypePPC_try_from_with(value, cfg)
      [] t = "ElfSectionHeaderTypeRISCV" -> ElfSectionHeaderTypeRISCV_try_from_with(value, cfg)
      [] t = "ElfSectionHeaderTypeX86_64" ->
            ElfSectionHeaderTypeX86_64_try_from_with(value, cfg)

InitSectionType ==
    /\ val \in SectionTypeWords
    /\ \E m \in ConfigMachines, o \in ConfigOsAbis :
          config = [DefaultConfig EXCEPT !.machine = m, !.os_abi = o]
    /\ out = <<>>
    /\ res = NoResult
    /\ \/ /\ ty = "ElfSectionHeaderType" /\ pc = "bytes"
          /\ EC \in Classes /\ ED \in Encodings
          /\ stream = Reader(WordBytes(ED, val), 0)
       \/ /\ ty \in SectionTables /\ pc = "value"
          /\ EC = ELF_CLASS_64 /\ ED = ELF_DATA_ENCODING_LITTLE_ENDIAN
          /\ stream = Reader(<<>>, 0)

\* ElfSectionHeaderType::from_reader_with on the bytes of the word
DecodeSectionType ==
    /\ ty = "ElfSectionHeaderType" /\ pc = "bytes"
    /\ LET r == ElfSectionHeaderType_from_reader_with(EC, ED, stream, config) IN
       /\ res' = r
       /\ stream' = r.rd
    /\ pc' = "decoded"
    /\ UNCHANGED <<ty, EC, ED, val, out, config>>

\* T::try_from_with(ElfWord(val), config) of one table
ConvertWithTable ==
    /\ ty \in SectionTables /\ pc = "value"
    /\ res' = Table_try_from_with(ty, val, config)
    /\ pc' = "converted"
    /\ UNCHANGED <<ty, EC, ED, val, stream, out, config>>

\* ElfSectionHeaderType::to_writer on the section type decoded
EncodeSectionType ==
    /\ ty = "ElfSectionHeaderType" /\ pc = "decoded" /\ res.ok
    /\ LET w == ElfSectionHeaderType_to_writer(EC, ED, res.val, <<>>) IN
       /\ w.ok
       /\ out' = w.out
    /\ pc' = "reencoded"
    /\ UNCHANGED <<ty, EC, ED, val, stream, res, config>>

NextSectionType == DecodeSectionType \/ ConvertWithTable \/ EncodeSectionType

SpecSectionType == InitSectionType /\ [][NextSectionType]_vars

(***************************************************************************)
(* Properties of the section header type decode                            *)
(***************************************************************************)
\* how the decode handled the word: as a generic constant, as OS-specific
\* (by an OS table or as OtherOperatingSystemSpecific), as processor-specific
\* (by an architecture table, which may refuse it, or as
\* OtherProcessorSpecific), or as Other
HandledAs ==
    IF ~res.ok THEN "processor"
    ELSE CASE res.val.tag = "Generic" -> "generic"
           [] res.val.tag \in {"Gnu", "Sun", "OtherOperatingSystemSpecific"} -> "os"
           [] res.val.tag = "Other" -> "other"
           [] OTHER -> "processor"

SectionTypeDecoded == ty = "ElfSectionHeaderType" /\ pc = "decoded"

\* C3: a word that is no generic constant is classified by its range, with
\* these boundaries: 0x5fffffff decodes to Other, 0x60000000 is the first
\* value handled as OS-specific, 0x70000000 the first and 0x7fffffff the last
\* handled as processor-specific, and 0x80000000 decodes to Other.
C3_RangeBoundaries ==
    SectionTypeDecoded =>
        /\ val = <<\hffff, \h5fff>> => HandledAs = "other"
        /\ val = <<0, \h6000>> => HandledAs = "os"
        /\ val = <<0, \h7000>> => HandledAs = "processor"
        /\ val = <<\hffff, \h7fff>> => HandledAs = "processor"
        /\ val = <<0, \h8000>> => HandledAs = "other"

\* 0x70000001 has been decoded under machine PPC
UnwindUnderPPC ==
    /\ SectionTypeDecoded
    /\ val = <<1, \h7000>>
    /\ config.machine = Some(ElfMachine_PPC)

\* C4 (as stated): decoding 0x70000001 while config.machine = Some(PPC) fails
\* with the machine-mismatch error InvalidMachineForSectionHeaderType.
C4_MachineMismatchUnderPPC ==
    UnwindUnderPPC =>
        ~res.ok /\ res.err.kind = "InvalidMachineForSectionHeaderType"

\* C4 (amended): decoding 0x70000001 while config.machine = Some(PPC) fails
\* with the value-mismatch error InvalidSectionHeaderType carrying machine PPC
\* and the value, the PPC table being the one table consulted and its gate
\* passing.  The machine-mismatch error is what a table gives when applied
\* directly under another machine, whatever the value: its gate comes first.
C4_ValueMismatchUnderPPC ==
    /\ UnwindUnderPPC =>
         /\ ~res.ok
         /\ res.err = [kind |-> "InvalidSectionHeaderType",
                       machine |-> Some(ElfMachine_PPC), value |-> <<1, \h7000>>]
    /\ (/\ pc = "converted"
        /\ ty \in {"ElfSectionHeaderTypeI386", "ElfSectionHeaderTypeX86_64"}
        /\ config.machine = Some(ElfMachine_PPC)) =>
         /\ ~res.ok
         /\ res.err.kind = "InvalidMachineForSectionHeaderType"
         /\ res.err.value = val

\* 0x70000001 has been refused under machine PPC, under a big-endian class 32
C4_Witness ==
    /\ UnwindUnderPPC
    /\ EC = ELF_CLASS_32 /\ ED = ELF_DATA_ENCODING_BIG_ENDIAN
    /\ ~res.ok /\ res.err.kind = "InvalidSectionHeaderType"

\* the architecture tables, and the machine each one is written for
ArchitectureTables ==
    SectionTables \ {"ElfSectionHeaderTypeGNU", "ElfSectionHeaderTypeSUN"}

ExpectedMachine(t) ==
    CASE t = "ElfSectionHeaderTypeAARCH64" -> ElfMachine_AARCH64
      [] t = "ElfSectionHeaderTypeARM32" -> ElfMachine_ARM
      [] t = "ElfSectionHeaderTypeI386" -> ElfMachine_I386
      [] t = "ElfSectionHeaderTypeMIPS" -> ElfMachine_MIPS
      [] t = "ElfSectionHeaderTypePARISC" -> ElfMachine_PARISC
      [] t = "ElfSectionHeaderTypePPC" -> ElfMachine_PPC
      [] t = "ElfSectionHeaderTypeRISCV" -> ElfMachine_Riscv
      [] t = "ElfSectionHeaderTypeX86_64" -> ElfMachine_X86_64

\* an architecture table has been applied to a word directly
TableApplied == pc = "converted" /\ ty \in ArchitectureTables

\* C17: every architecture table checks config.machine before the value:
\* whenever config.machine is not the table's expected machine the conversion
\* fails with InvalidMachineForSectionHeaderType carrying the actual machine,
\* the expected machines and the raw value, for every raw value, those the
\* table knows included.
C17_MachineGateFirst ==
    (TableApplied /\ config.machine # Some(ExpectedMachine(ty))) =>
        /\ ~res.ok
        /\ res.err = [kind |-> "InvalidMachineForSectionHeaderType",
                      machine |-> config.machine,
                      expected_machines |-> <<ExpectedMachine(ty)>>,
                      value |-> val]

\* the variant of ElfSectionHeaderType that wraps the value of a table
TableVariant(t) ==
    CASE t = "ElfSectionHeaderTypeGNU" -> "Gnu"
      [] t = "ElfSectionHeaderTypeSUN" -> "Sun"
      [] t = "ElfSectionHeaderTypeAARCH64" -> "AARCH64"
      [] t = "ElfSectionHeaderTypeARM32" -> "Arm"
      [] t = "ElfSectionHeaderTypeI386" -> "I386"
      [] t = "ElfSectionHeaderTypeMIPS" -> "Mips"
      [] t = "ElfSectionHeaderTypePARISC" -> "PaRisc"
      [] t = "ElfSectionHeaderTypePPC" -> "Ppc"
      [] t = "ElfSectionHeaderTypeRISCV" -> "Riscv"
      [] t = "ElfSectionHeaderTypeX86_64" -> "X86_64"

\* the gate of table t lets the configuration through: the table does not
\* answer the word with a machine or OS ABI mismatch
GateAccepts(t) ==
    LET r == Table_try_from_with(t, val, config) IN
    r.ok \/ r.err.kind \notin {"InvalidMachineForSectionHeaderType",
                               "InvalidOsAbiForSectionHeaderType"}

\* the decode gave what table t gives for the word
DecodedBy(t) ==
    LET r == Variant(TableVariant(t), Table_try_from_with(t, val, config)) IN
    /\ res.ok = r.ok
    /\ IF r.ok THEN res.val.tag = r.val.tag /\ res.val.v = r.val.v
       ELSE res.err = r.err

DecodedAs(tag) == res.ok /\ res.val.tag = tag /\ res.val.v = val

\* the decode gave a variant of the table wrapped as tag
DecodedByTable(tag) == res.ok /\ res.val.tag = tag

\* 0x70000000 <= val <= 0x7fffffff
InProcessorRange == val[2] >= \h7000 /\ val[2] <= \h7fff

\* C18: a word of the processor-specific range is dispatched by
\* config.machine to exactly one architecture table, the one whose machine
\* gate accepts config.machine; it decodes to OtherProcessorSpecific holding
\* the raw word only when no architecture table accepts config.machine.
C18_DispatchByMachine ==
    (SectionTypeDecoded /\ InProcessorRange) =>
        LET accepting == {t \in ArchitectureTables : GateAccepts(t)} IN
        IF accepting = {} THEN DecodedAs("OtherProcessorSpecific")
        ELSE \E t \in accepting : accepting = {t} /\ DecodedBy(t)

\* 0x60000000 <= val < 0x70000000
InOsRange == val[2] >= \h6000 /\ val[2] <= \h6fff

\* the configured OS ABI is the one of the GNU table or of the SUN table
OsAbiMatches ==
    config.os_abi \in {Some(ElfOSABI_GnuLinux), Some(ElfOSABI_Solaris)}

\* C19: a word of the OS-specific range is tried against the GNU table, then
\* the SUN table, and decodes to OtherOperatingSystemSpecific holding the raw
\* word if the configured os_abi matches neither table (it is neither
\* GnuLinux nor Solaris, or it is unset).
C19_OsFallback ==
    (SectionTypeDecoded /\ InOsRange /\ ~OsAbiMatches) =>
        /\ ~GateAccepts("ElfSectionHeaderTypeGNU")
        /\ ~GateAccepts("ElfSectionHeaderTypeSUN")
        /\ DecodedAs("OtherOperatingSystemSpecific")

\* C20: with os_abi = GnuLinux each of the seven GNU constants (0x6fff4700,
\* 0x6ffffff5, 0x6ffffff6, 0x6ffffff7, 0x6ffffffd, 0x6ffffffe, 0x6fffffff)
\* decodes to its GNU variant, and with os_abi = Solaris each of the three SUN
\* constants (0x6ffffffd, 0x6ffffffe, 0x6fffffff) decodes to its SUN variant:
\* the shared values are told apart by the configured os_abi alone.
C20_OsConstants ==
    SectionTypeDecoded =>
        /\ (/\ config.os_abi = Some(ElfOSABI_GnuLinux)
            /\ val \in {<<\h4700, \h6fff>>, <<\hfff5, \h6fff>>, <<\hfff6, \h6fff>>,
                        <<\hfff7, \h6fff>>, <<\hfffd, \h6fff>>, <<\hfffe, \h6fff>>,
                        <<\hffff, \h6fff>>}) => DecodedByTable("Gnu")
        /\ (/\ config.os_abi = Some(ElfOSABI_Solaris)
            /\ val \in {<<\hfffd, \h6fff>>, <<\hfffe, \h6fff>>, <<\hffff, \h6fff>>})
               => DecodedByTable("Sun")

\* the table the configuration selects for the word: by os_abi in the
\* OS-specific range, by machine in the processor-specific range
SelectedTables ==
    IF InOsRange
    THEN CASE config.os_abi = Some(ElfOSABI_GnuLinux) -> {"ElfSectionHeaderTypeGNU"}
           [] config.os_abi = Some(ElfOSABI_Solaris) -> {"ElfSectionHeaderTypeSUN"}
           [] OTHER -> {}
    ELSE IF InProcessorRange
    THEN {t \in ArchitectureTables : config.machine = Some(ExpectedMachine(t))}
    ELSE {}

\* C24: a word of a reserved range (OS-specific or processor-specific) that
\* matches no entry of the table the configuration selects is an error,
\* InvalidSectionHeaderType carrying the configured machine and the raw word,
\* and not a successfully decoded catch-all variant.
C24_UnknownInSelectedTable ==
    SectionTypeDecoded =>
        \A t \in SelectedTables :
            ~Table_try_from_with(t, val, config).ok =>
                /\ ~res.ok
                /\ res.err = [kind |-> "InvalidSectionHeaderType",
                              machine |-> config.machine, value |-> val]

\* a section type has been decoded and encoded again
SectionTypeReencoded == ty = "ElfSectionHeaderType" /\ pc = "reencoded"

\* C26: for every raw word and every configuration under which the section
\* type decode succeeds, encoding the decoded section type writes exactly the
\* bytes of the word: the generic, architecture and OS variants write their
\* discriminant, and the three catch-all variants (OtherProcessorSpecific,
\* OtherOperatingSystemSpecific, Other) hold and write the raw word.
C26_SectionTypeRoundTrip ==
    SectionTypeReencoded =>
        /\ out = WordBytes(ED, val)
        /\ out = stream.data
        /\ res.val.tag \in {"OtherProcessorSpecific", "OtherOperatingSystemSpecific",
                            "Other"} => res.val.v = val

\* the MIPS XHash section type 0x7000002b has been decoded under machine MIPS
\* from big-endian bytes and written back
C26_Witness ==
    /\ SectionTypeReencoded
    /\ val = <<43, \h7000>>
    /\ ED = ELF_DATA_ENCODING_BIG_ENDIAN
    /\ res.val.tag = "Mips" /\ res.val.v = "XHash"
    /\ out = <<\h70, 0, 0, 43>>

(***************************************************************************)
(* MIPS header flags (arch/mips.rs)                                        *)
(***************************************************************************)
\* a & b on 16 bits
RECURSIVE BitAnd(_, _)
BitAnd(a, b) ==
    IF a = 0 \/ b = 0 THEN 0
    ELSE (a % 2) * (b % 2) + 2 * BitAnd(a \div 2, b \div 2)

\* a & b on u32
u32_and(a, b) == <<BitAnd(a[1], b[1]), BitAnd(a[2], b[2])>>

\* The mutant of the base flag tests that tests PIC before NO_REORDER
ElfHeaderFlagMIPS_base_pic_first ==
    <<[flag |-> "Pic", bit |-> <<2, 0>>],
      [flag |-> "NoReorder", bit |-> <<1, 0>>],
      [flag |-> "CPic", bit |-> <<4, 0>>],
      [flag |-> "XGot", bit |-> <<8, 0>>],
      [flag |-> "UCode", bit |-> <<16, 0>>],
      [flag |-> "Abi2", bit |-> <<32, 0>>],
      [flag |-> "AbiOn32", bit |-> <<64, 0>>],
      [flag |-> "OptionsFirst", bit |-> <<\h80, 0>>],
      [flag |-> "BitMode32", bit |-> <<\h100, 0>>],
      [flag |-> "FloatingPoint64", bit |-> <<512, 0>>],
      [flag |-> "NotANumber2008", bit |-> <<1024, 0>>]>>

\* The single-bit flags in the order ElfHeaderFlagsMIPS::try_from_with tests
\* them: NO_REORDER, PIC, CPIC, XGOT, UCODE, ABI2, ABI_ON32, OPTIONS_FIRST,
\* BITMODE_32, FP64, NAN_2008
ElfHeaderFlagMIPS_base ==
    <<[flag |-> "NoReorder", bit |-> <<1, 0>>],
      [flag |-> "Pic", bit |-> <<2, 0>>],
      [flag |-> "CPic", bit |-> <<4, 0>>],
      [flag |-> "XGot", bit |-> <<8, 0>>],
      [flag |-> "UCode", bit |-> <<16, 0>>],
      [flag |-> "Abi2", bit |-> <<32, 0>>],
      [flag |-> "AbiOn32", bit |-> <<64, 0>>],
      [flag |-> "OptionsFirst", bit |-> <<\h80, 0>>],
      [flag |-> "BitMode32", bit |-> <<\h100, 0>>],
      [flag |-> "FloatingPoint64", bit |-> <<512, 0>>],
      [flag |-> "NotANumber2008", bit |-> <<1024, 0>>]>>

\* The composite fields in the order they are tested: the variant, its mask
\* and the values from_u32 knows
ElfHeaderFlagMIPS_composite ==
    <<[flag |-> "Architecture", mask |-> <<0, \hf000>>,
       values |-> {<<0, k * \h1000>> : k \in 0..10}],
      [flag |-> "Extension", mask |-> <<0, \h0f00>>,
       values |-> {<<0, \h0800>>, <<0, \h0400>>, <<0, \h0200>>}],
      [flag |-> "Abi", mask |-> <<\hf000, 0>>,
       values |-> {<<k * \h1000, 0>> : k \in 1..4}],
      [flag |-> "Machine", mask |-> <<0, \h00ff>>,
       values |-> {<<0, k>> : k \in {\h81, \h82, \h83, \h84, \h85, \h87, \h88, \h8a,
                                     \h8b, \h8c, \h8d, \h8e, \h91, \h92, \h93, \h98,
                                     \h99, \ha0, \ha1, \ha2, \ha3, \ha4}}]>>

\* The `if value.0 & MASK != 0 { flags.push(Variant(from_u32(..).ok_or(..)?)) }`
\* statements of the composite fields cs, in order
RECURSIVE PushComposite(_, _, _, _)
PushComposite(cs, value, cfg, flags) ==
    IF cs = <<>> THEN Converted(flags)
    ELSE Let(u32_and(value, Head(cs).mask), LAMBDA field :
         IF field = <<0, 0>> THEN PushComposite(Tail(cs), value, cfg, flags)
         ELSE IF field \in Head(cs).values
         THEN PushComposite(Tail(cs), value, cfg,
                            Append(flags, [flag |-> Head(cs).flag, v |-> field]))
         ELSE Refused([kind |-> "InvalidHeaderFlagForMachine", machine |-> cfg.machine,
                       value |-> value]))

\* ElfHeaderFlagsMIPS::try_from_with: the base flags whose bit is set, then
\* the composite fields that are not zero, and the word itself
ElfHeaderFlagsMIPS_try_from_with(value, cfg) ==
    Bind(PushComposite(ElfHeaderFlagMIPS_composite, value, cfg,
            [i \in 1..Len(SelectSeq(ElfHeaderFlagMIPS_base,
                                    LAMBDA f : u32_and(value, f.bit) # <<0, 0>>)) |->
                [flag |-> SelectSeq(ElfHeaderFlagMIPS_base,
                                    LAMBDA f : u32_and(value, f.bit) # <<0, 0>>)[i].flag]]),
         LAMBDA flags : Converted([flags |-> flags.val, value |-> value]))

(***************************************************************************)
(* Specification of the MIPS header flags decode                           *)
(***************************************************************************)
\* the flag words decoded: every combination of the eleven single bits, alone
\* or with an ABI, under some architecture, extension and machine fields
MipsLowLimbs == {b + a : b \in 0..(2 ^ 11 - 1), a \in {0, \h1000}} \cup {\h5000, \hf7ff}

MipsHighLimbs == {0, \h1000, \ha000, \hb000, \h0400, \h1481, \h0086}

InitMipsFlags ==
    /\ ty = "ElfHeaderFlagsMIPS" /\ pc = "value"
    /\ EC = ELF_CLASS_32 /\ ED = ELF_DATA_ENCODING_BIG_ENDIAN
    /\ val \in {<<lo, hi>> : lo \in MipsLowLimbs, hi \in MipsHighLimbs}
    /\ stream = Reader(<<>>, 0)
    /\ out = <<>>
    /\ res = NoResult
    /\ config \in {DefaultConfig, [DefaultConfig EXCEPT !.machine = Some(ElfMachine_MIPS)]}

\* ElfHeaderFlagsMIPS::try_from_with(ElfWord(val), config)
DecodeMipsFlags ==
    /\ ty = "ElfHeaderFlagsMIPS" /\ pc = "value"
    /\ res' = ElfHeaderFlagsMIPS_try_from_with(val, config)
    /\ pc' = "converted"
    /\ UNCHANGED <<ty, EC, ED, val, stream, out, config>>

NextMipsFlags == DecodeMipsFlags

SpecMipsFlags == InitMipsFlags /\ [][NextMipsFlags]_vars

(***************************************************************************)
(* Properties of the MIPS header flags decode                              *)
(***************************************************************************)
\* the order the claim gives to the flags
MipsFlagOrder ==
    <<"NoReorder", "Pic", "CPic", "XGot", "UCode", "Abi2", "AbiOn32", "OptionsFirst",
      "BitMode32", "FloatingPoint64", "NotANumber2008", "Architecture", "Extension",
      "Abi", "Machine">>

\* the place of a flag in that order
MipsFlagRank(f) == CHOOSE i \in 1..Len(MipsFlagOrder) : MipsFlagOrder[i] = f.flag

\* bit k (0 the lowest) of a limb is set
BitSet(limb, k) == (limb \div (2 ^ k)) % 2 = 1

MipsFlagsDecoded == ty = "ElfHeaderFlagsMIPS" /\ pc = "converted" /\ res.ok

\* C7: the decoded sequence lists the set single-bit flags first, in the order
\* NoReorder, Pic, CPic, XGot, UCode, Abi2, AbiOn32, OptionsFirst, BitMode32,
\* FloatingPoint64, NotANumber2008, then the composite fields that are not
\* zero in the order Architecture, Extension, Abi, Machine; a single-bit flag
\* is listed exactly when its bit is set.  0x10000203 decodes to NoReorder,
\* Pic, FloatingPoint64, Architecture(Mips2).
C7_MipsFlagOrder ==
    MipsFlagsDecoded =>
        LET flags == res.val.flags IN
        /\ \A i, j \in 1..Len(flags) :
              i < j => MipsFlagRank(flags[i]) < MipsFlagRank(flags[j])
        /\ \A k \in 0..10 :
              BitSet(val[1], k) <=> \E i \in 1..Len(flags) : flags[i].flag = MipsFlagOrder[k + 1]
        /\ (val[2] \div \h1000 # 0) <=> \E i \in 1..Len(flags) : flags[i].flag = "Architecture"
        /\ ((val[2] \div \h100) % 16 # 0) <=> \E i \in 1..Len(flags) : flags[i].flag = "Extension"
        /\ (val[1] \div \h1000 # 0) <=> \E i \in 1..Len(flags) : flags[i].flag = "Abi"
        /\ (val[2] % \h100 # 0) <=> \E i \in 1..Len(flags) : flags[i].flag = "Machine"
        /\ val = <<\h0203, \h1000>> =>
              flags = <<[flag |-> "NoReorder"], [flag |-> "Pic"],
                        [flag |-> "FloatingPoint64"],
                        [flag |-> "Architecture", v |-> <<0, \h1000>>]>>

\* 0x10000203 has been decoded
C7_Witness ==
    /\ MipsFlagsDecoded
    /\ val = <<\h0203, \h1000>>
    /\ Len(res.val.flags) = 4

(***************************************************************************)
(* Section header flags (header/section/mod.rs)                            *)
(***************************************************************************)
\* The discriminants of Elf32SectionHeaderFlags and Elf64SectionHeaderFlags:
\* Write, Allocated, ExecutableInstructions, Merge, Strings, InfoLink,
\* LinkOrder, OsNonConforming, Group, ThreadLocalStorage, Compressed
ElfSectionHeaderFlagValues ==
    {\h1, \h2, \h4, \h10, \h20, \h40, \h80, \h100, \h200, \h400, \h800}

\* the bytes of the flags field: an ElfWord under class 32, an
\* ElfExtendedWord under class 64
ElfSectionHeaderFlags_SIZE(ec) == IF ec = ELF_CLASS_32 THEN 4 ELSE 8

\* Self::from_u32 / Self::from_u64: the variant whose discriminant is v
ElfSectionHeaderFlags_from_uN(v) ==
    IF v[1] \in ElfSectionHeaderFlagValues /\ \A i \in 2..Len(v) : v[i] = 0
    THEN Some(v[1]) ELSE NoneOpt

\* Elf32SectionHeaderFlags::from_reader_with and
\* Elf64SectionHeaderFlags::from_reader_with
ElfSectionHeaderFlags_from_reader_with(ec, ed, rd, cfg) ==
    Bind(Fixed_from_reader_with(ElfSectionHeaderFlags_SIZE(ec), ec, ed, rd, cfg),
         LAMBDA flags :
        IF ElfSectionHeaderFlags_from_uN(flags.val).some
        THEN Ok(ElfSectionHeaderFlags_from_uN(flags.val).v, flags.rd)
        ELSE Bind(ErrorContext_from_reader(flags.rd, ElfSectionHeaderFlags_SIZE(ec)),
                  LAMBDA c : Err([kind |-> "InvalidElfSectionHeaderFlags",
                                  context |-> c.val], c.rd)))

\* to_writer of the two: ElfWord((*self as u32).to_le()).to_writer(writer),
\* ElfExtendedWord((*self as u64).to_le()).to_writer(writer)
ElfSectionHeaderFlags_to_writer(ec, ed, self, w) ==
    Fixed_to_writer(ElfSectionHeaderFlags_SIZE(ec), ec, ed,
                    to_le(<<self>> \o Zeros(ElfSectionHeaderFlags_SIZE(ec) \div 2 - 1)), w)

(***************************************************************************)
(* Specification of the section header flags codec: the bytes of a flags   *)
(* field are decoded and the flags decoded are encoded                     *)
(***************************************************************************)
\* the flags fields decoded: every value of the low twelve bits, alone or
\* with a bit above them
SectionFlagWords(ec) ==
    {<<lo, hi>> \o Zeros(ElfSectionHeaderFlags_SIZE(ec) \div 2 - 2) :
        lo \in 0..(2 ^ 12 - 1), hi \in {0, \h0010}}

InitSectionFlags ==
    /\ ty = "ElfSectionHeaderFlags" /\ pc = "bytes"
    /\ EC \in Classes /\ ED \in Encodings
    /\ val \in SectionFlagWords(EC)
    /\ stream = Reader(IF ED = ELF_DATA_ENCODING_LITTLE_ENDIAN
                       THEN to_le_bytes(val, ElfSectionHeaderFlags_SIZE(EC))
                       ELSE to_be_bytes(val, ElfSectionHeaderFlags_SIZE(EC)), 0)
    /\ out = <<>>
    /\ res = NoResult
    /\ config = DefaultConfig

\* Elf{32,64}SectionHeaderFlags::from_reader_with of the bytes
DecodeSectionFlags ==
    /\ ty = "ElfSectionHeaderFlags" /\ pc = "bytes"
    /\ LET r == ElfSectionHeaderFlags_from_reader_with(EC, ED, stream, config) IN
       /\ res' = r
       /\ stream' = r.rd
    /\ pc' = "decoded"
    /\ UNCHANGED <<ty, EC, ED, val, out, config>>

\* flags.to_writer(&mut out) of the flags just decoded
EncodeSectionFlags ==
    /\ ty = "ElfSectionHeaderFlags" /\ pc = "decoded" /\ res.ok
    /\ LET w == ElfSectionHeaderFlags_to_writer(EC, ED, res.val, <<>>) IN
       /\ w.ok
       /\ out' = w.out
    /\ pc' = "reencoded"
    /\ UNCHANGED <<ty, EC, ED, val, stream, res, config>>

NextSectionFlags == DecodeSectionFlags \/ EncodeSectionFlags

SpecSectionFlags == InitSectionFlags /\ [][NextSectionFlags]_vars

(***************************************************************************)
(* Properties of the section header flags codec                            *)
(***************************************************************************)
\* the flags field holds a subset of the eleven defined bits and nothing else
SubsetOfDefinedFlags ==
    /\ BitAnd(val[1], \hf008) = 0
    /\ \A i \in 2..Len(val) : val[i] = 0

\* C25: section header flags decode as a bitset: a flags word (class 32) or
\* extended word (class 64) with any subset of the eleven defined single-bit
\* flags set, several at once included, decodes successfully, and encoding
\* the result writes the same value.
C25_SectionFlagsBitset ==
    (/\ ty = "ElfSectionHeaderFlags" /\ pc \in {"decoded", "reencoded"}
     /\ SubsetOfDefinedFlags) =>
        /\ res.ok
        /\ pc = "reencoded" => out = stream.data

(***************************************************************************)
(* ARM32, PA-RISC and RISC-V header flags, and the encoders of the four    *)
(* flag sets (arch/arm32.rs, arch/parisc.rs, arch/riscv.rs, arch/mips.rs)  *)
(***************************************************************************)
\* a | b on 16 bits and on u32
BitOr(a, b) == a + b - BitAnd(a, b)

u32_or(a, b) == <<BitOr(a[1], b[1]), BitOr(a[2], b[2])>>

\* The `if value.0 & BIT != 0 { flags.push(Flag) }` statements of the
\* single-bit flags bs, in order
PushSingle(bs, value) ==
    [i \in 1..Len(SelectSeq(bs, LAMBDA f : u32_and(value, f.bit) # <<0, 0>>)) |->
        [flag |-> SelectSeq(bs, LAMBDA f : u32_and(value, f.bit) # <<0, 0>>)[i].flag]]

\* The mutant of the ARM32 single-bit tests that tests FLOAT_HARD first
ElfHeaderFlagARM32_base_hard_first ==
    <<[flag |-> "FloatHard", bit |-> <<\h0400, 0>>],
      [flag |-> "FloatSoft", bit |-> <<\h0200, 0>>],
      [flag |-> "Be8", bit |-> <<0, \h0080>>]>>

\* FLOAT_SOFT, FLOAT_HARD, BE8 in the order they are tested
ElfHeaderFlagARM32_base ==
    <<[flag |-> "FloatSoft", bit |-> <<\h0200, 0>>],
      [flag |-> "FloatHard", bit |-> <<\h0400, 0>>],
      [flag |-> "Be8", bit |-> <<0, \h0080>>]>>

ElfHeaderFlagARM32_ABIMASK == <<0, \hff00>>

ElfHeaderFlagARM32_GCCMASK == <<\h0fff, \h0040>>

\* (x >> 24) as u8
shr24_as_u8(x) == <<x[2] \div 256>>

\* ElfHeaderFlagsARM32::try_from_with: AbiVersion and Gcc always, then the
\* single-bit flags that are set; config is not looked at
ElfHeaderFlagsARM32_try_from_with(value, cfg) ==
    Converted([flags |->
                  <<[flag |-> "AbiVersion",
                     v |-> shr24_as_u8(u32_and(value, ElfHeaderFlagARM32_ABIMASK))],
                    [flag |-> "Gcc", v |-> u32_and(value, ElfHeaderFlagARM32_GCCMASK)]>>
                  \o PushSingle(ElfHeaderFlagARM32_base, value),
               value |-> value])

\* TRAP_NIL .. LAZY_SWAP in the order they are tested
ElfHeaderFlagPARISC_base ==
    <<[flag |-> "TrapNil", bit |-> <<0, \h0001>>],
      [flag |-> "Extensions", bit |-> <<0, \h0002>>],
      [flag |-> "LittleEndianMode", bit |-> <<0, \h0004>>],
      [flag |-> "WideMode", bit |-> <<0, \h0008>>],
      [flag |-> "NoKernelAssistedBranchPrediction", bit |-> <<0, \h0010>>],
      [flag |-> "LazySwap", bit |-> <<0, \h0040>>]>>

\* ElfHeaderFlagPARISCArchitectureVersion: its mask and its three constants
ElfHeaderFlagPARISC_composite ==
    <<[flag |-> "ArchitectureVersion", mask |-> <<\hffff, 0>>,
       values |-> {<<\h020b, 0>>, <<\h0210, 0>>, <<\h0214, 0>>}]>>

\* The mutant of the PA-RISC decode that takes any architecture version
ElfHeaderFlagsPARISC_try_from_with_lenient(value, cfg) ==
    Converted([flags |-> PushSingle(ElfHeaderFlagPARISC_base, value), value |-> value])

\* ElfHeaderFlagsPARISC::try_from_with
ElfHeaderFlagsPARISC_try_from_with(value, cfg) ==
    Bind(PushComposite(ElfHeaderFlagPARISC_composite, value, cfg,
                       PushSingle(ElfHeaderFlagPARISC_base, value)),
         LAMBDA flags : Converted([flags |-> flags.val, value |-> value]))

\* The four masked fields of the RISC-V flags in the order they are tested
ElfHeaderFlagRISCV_composite ==
    <<[flag |-> "Rvc", mask |-> <<1, 0>>, values |-> {<<0, 0>>, <<1, 0>>}],
      [flag |-> "FloatAbi", mask |-> <<6, 0>>,
       values |-> {<<0, 0>>, <<2, 0>>, <<4, 0>>, <<6, 0>>}],
      [flag |-> "EAbi", mask |-> <<8, 0>>, values |-> {<<0, 0>>, <<8, 0>>}],
      [flag |-> "MemoryModel", mask |-> <<\h10, 0>>, values |-> {<<0, 0>>, <<\h10, 0>>}]>>

\* ElfHeaderFlagsRISCV::try_from_with
ElfHeaderFlagsRISCV_try_from_with(value, cfg) ==
    Bind(PushComposite(ElfHeaderFlagRISCV_composite, value, cfg, <<>>),
         LAMBDA flags : Converted([flags |-> flags.val, value |-> value]))

\* The word a decoded flag stands for
FlagWord(f) ==
    IF f.flag = "AbiVersion" THEN <<0, f.v[1] * 256>>
    ELSE IF "v" \in DOMAIN f THEN f.v
    ELSE LET bs == ElfHeaderFlagMIPS_base \o ElfHeaderFlagARM32_base
                   \o ElfHeaderFlagPARISC_base IN
         bs[CHOOSE i \in 1..Len(bs) : bs[i].flag = f.flag].bit

\* The mutant of the encoders that writes the word rebuilt from the decoded
\* flags instead of the word kept
RECURSIVE FlagsWord(_)
FlagsWord(flags) ==
    IF flags = <<>> THEN <<0, 0>> ELSE u32_or(FlagWord(Head(flags)), FlagsWord(Tail(flags)))

ElfHeaderFlags_to_writer_rebuilt(ec, ed, self, w) ==
    ElfWord_to_writer(ec, ed, FlagsWord(self.flags), w)

\* ElfHeaderFlags{ARM32,MIPS,PARISC,RISCV}::to_writer: self.value.to_writer
ElfHeaderFlags_to_writer(ec, ed, self, w) == ElfWord_to_writer(ec, ed, self.value, w)

(***************************************************************************)
(* Specification of the header flags codec: a flags word is decoded by one *)
(* of the four flag-set decoders and the flag set is encoded               *)
(***************************************************************************)
HeaderFlagTypes ==
    {"ElfHeaderFlagsARM32", "ElfHeaderFlagsMIPS", "ElfHeaderFlagsPARISC",
     "ElfHeaderFlagsRISCV"}

\* T::try_from_with for the flag set named t
HeaderFlags_try_from_with(t, value, cfg) ==
    CASE t = "ElfHeaderFlagsARM32" -> ElfHeaderFlagsARM32_try_from_with(value, cfg)
      [] t = "ElfHeaderFlagsMIPS" -> ElfHeaderFlagsMIPS_try_from_with(value, cfg)
      [] t = "ElfHeaderFlagsPARISC" -> ElfHeaderFlagsPARISC_try_from_with(value, cfg)
      [] t = "ElfHeaderFlagsRISCV" -> ElfHeaderFlagsRISCV_try_from_with(value, cfg)

\* the machine of each flag set
HeaderFlagsMachine(t) ==
    CASE t = "ElfHeaderFlagsARM32" -> ElfMachine_ARM
      [] t = "ElfHeaderFlagsMIPS" -> ElfMachine_MIPS
      [] t = "ElfHeaderFlagsPARISC" -> ElfMachine_PARISC
      [] t = "ElfHeaderFlagsRISCV" -> ElfMachine_Riscv

\* the flag words decoded by each flag set: defined bits alone and together,
\* valid and invalid values of the masked fields, reserved bits
HeaderFlagWords(t) ==
    CASE t = "ElfHeaderFlagsARM32" ->
            {<<lo, hi>> : lo \in {0, \h0200, \h0400, \h0600, \h0fff, \h1000, \hf1ff},
                          hi \in {0, \h0080, \h0040, \h0500, \hff00, \h05c0, \h0580, \h0001}}
      [] t = "ElfHeaderFlagsMIPS" ->
            {<<lo, hi>> : lo \in {0, \h0203, \h1000, \h5000, \hf7ff, \h0800},
                          hi \in MipsHighLimbs}
      [] t = "ElfHeaderFlagsPARISC" ->
            {<<lo, hi>> : lo \in {0, \h020b, \h0210, \h0214, \h0001, \h0215, \hffff},
                          hi \in {0, 1, 2, 4, 8, \h10, \h40, \h5f, \h20, \h8000, \hffff}}
      [] t = "ElfHeaderFlagsRISCV" ->
            {<<lo, hi>> : lo \in (0..31) \cup {\h20, \h8005, \hffff},
                          hi \in {0, 1, \hffff}}

InitHeaderFlags ==
    /\ ty \in HeaderFlagTypes /\ pc = "flags"
    /\ EC \in Classes /\ ED \in Encodings
    /\ val \in HeaderFlagWords(ty)
    /\ stream = Reader(<<>>, 0)
    /\ out = <<>>
    /\ res = NoResult
    /\ config \in {DefaultConfig,
                   [DefaultConfig EXCEPT !.machine = Some(HeaderFlagsMachine(ty))]}

\* T::try_from_with(ElfWord(val), config)
DecodeHeaderFlags ==
    /\ ty \in HeaderFlagTypes /\ pc = "flags"
    /\ res' = HeaderFlags_try_from_with(ty, val, config)
    /\ pc' = "converted"
    /\ UNCHANGED <<ty, EC, ED, val, stream, out, config>>

\* flags.to_writer(&mut out) of the flag set just decoded; the flag set stays
\* in res, the bytes written are in out
EncodeHeaderFlags ==
    /\ ty \in HeaderFlagTypes /\ pc = "converted" /\ res.ok
    /\ LET w == ElfHeaderFlags_to_writer(EC, ED, res.val, <<>>) IN
       /\ w.ok
       /\ out' = w.out
    /\ pc' = "encoded"
    /\ UNCHANGED <<ty, EC, ED, val, stream, res, config>>

NextHeaderFlags == DecodeHeaderFlags \/ EncodeHeaderFlags

SpecHeaderFlags == InitHeaderFlags /\ [][NextHeaderFlags]_vars

(***************************************************************************)
(* Properties of the header flags codec                                    *)
(***************************************************************************)
\* C21: for every flags word w that a flag-set decoder (ARM32, MIPS, PA-RISC,
\* RISC-V) accepts, encoding the decoded flag set writes exactly the four
\* bytes of w in the file's byte order, reserved and unknown bits included:
\* the word kept is written, never a word rebuilt from the decoded flags.
C21_FlagsEncodeRawWord ==
    (ty \in HeaderFlagTypes /\ pc = "encoded") =>
        /\ res.val.value = val
        /\ out = WordBytes(ED, val)

\* the PA-RISC word 0x00200210, whose bit 0x00200000 is no flag, has been
\* decoded and encoded under a big-endian encoding
C21_Witness ==
    /\ ty = "ElfHeaderFlagsPARISC" /\ pc = "encoded"
    /\ val = <<\h0210, \h0020>>
    /\ ED = ELF_DATA_ENCODING_BIG_ENDIAN
    /\ out = <<0, \h20, 2, \h10>>

\* the masked fields of each flag set that has any
HeaderFlagsComposite(t) ==
    CASE t = "ElfHeaderFlagsMIPS" -> ElfHeaderFlagMIPS_composite
      [] t = "ElfHeaderFlagsPARISC" -> ElfHeaderFlagPARISC_composite
      [] t = "ElfHeaderFlagsRISCV" -> ElfHeaderFlagRISCV_composite
      [] OTHER -> <<>>

\* some masked field of the word is not zero and is none of its constants
UnknownSubField ==
    \E i \in 1..Len(HeaderFlagsComposite(ty)) :
        LET c == HeaderFlagsComposite(ty)[i]
            field == <<BitAnd(val[1], c.mask[1]), BitAnd(val[2], c.mask[2])>> IN
        field # <<0, 0>> /\ field \notin c.values

MaskedFlagsConverted ==
    /\ ty \in {"ElfHeaderFlagsMIPS", "ElfHeaderFlagsPARISC", "ElfHeaderFlagsRISCV"}
    /\ pc = "converted"

\* C28: the header flags decode of MIPS, PA-RISC and RISC-V fails with
\* InvalidHeaderFlagForMachine, carrying config.machine and the raw word,
\* exactly when some masked sub-field is not zero and its value is none of
\* the sub-enum's constants; for every other word it succeeds.
C28_InvalidHeaderFlag ==
    MaskedFlagsConverted =>
        IF UnknownSubField
        THEN /\ ~res.ok
             /\ res.err = [kind |-> "InvalidHeaderFlagForMachine",
                           machine |-> config.machine, value |-> val]
        ELSE res.ok

\* the PA-RISC word 0x00010215, whose architecture version 0x0215 is none of
\* the three constants, has been refused under machine PARISC
C28_Witness ==
    /\ ty = "ElfHeaderFlagsPARISC" /\ pc = "converted"
    /\ val = <<\h0215, \h0001>>
    /\ config.machine = Some(ElfMachine_PARISC)
    /\ ~res.ok

\* the single-bit flags of an ARM32 word, as the claim orders them
Arm32BitFlags ==
    (IF BitSet(val[1], 9) THEN <<[flag |-> "FloatSoft"]>> ELSE <<>>)
    \o (IF BitSet(val[1], 10) THEN <<[flag |-> "FloatHard"]>> ELSE <<>>)
    \o (IF BitSet(val[2], 7) THEN <<[flag |-> "Be8"]>> ELSE <<>>)

\* C29: the ARM32 header flags decode succeeds for every word and yields
\* AbiVersion (the top byte of the word) and then Gcc (word & 0x00400fff) as
\* the first two elements, followed by FloatSoft, FloatHard and Be8, in that
\* order, for each of the bits 0x200, 0x400 and 0x800000 that is set.
C29_Arm32FlagOrder ==
    (ty = "ElfHeaderFlagsARM32" /\ pc = "converted") =>
        /\ res.ok
        /\ res.val.flags =
              <<[flag |-> "AbiVersion", v |-> <<val[2] \div 256>>],
                [flag |-> "Gcc",
                 v |-> <<val[1] % \h1000, IF BitSet(val[2], 6) THEN \h40 ELSE 0>>]>>
              \o Arm32BitFlags

\* 0x05800600 decoded: ABI version 5, and all three single-bit flags
C29_Witness ==
    /\ ty = "ElfHeaderFlagsARM32" /\ pc = "converted"
    /\ val = <<\h0600, \h0580>>
    /\ Len(res.val.flags) = 5

(***************************************************************************)
(* The read loop of ErrorContext::from_reader_at, one read attempt at a    *)
(* time: val holds the offset, the size and the read attempts made, out    *)
(* is the context buffer                                                   *)
(***************************************************************************)
\* the largest context size asked for
MaxContextSize == 3

\* the longest stream a context is read from
MaxDataLen == 3

\* The mutant of Vec::pop that removes nothing
pop_nothing(v) == v

\* Vec::pop: the vector without its last element, unchanged when empty
pop(v) == IF v = <<>> THEN v ELSE SubSeq(v, 1, Len(v) - 1)

InitContext ==
    /\ ty = "ErrorContext" /\ pc = "start"
    /\ EC = ELF_CLASS_64 /\ ED = ELF_DATA_ENCODING_LITTLE_ENDIAN
    /\ \E n \in 0..MaxDataLen, k \in ReaderKinds, p \in 0..MaxDataLen :
          stream = ReaderOf(k, [i \in 1..n |-> i], IF p <= n THEN p ELSE n)
    /\ \E offset \in 0..(MaxDataLen + 1), size \in 0..MaxContextSize :
          val = [offset |-> offset, size |-> size, attempts |-> 0]
    /\ out = <<>>
    /\ res = NoResult
    /\ config = DefaultConfig

\* let mut context = vec![0; size]; reader.seek(SeekFrom::Start(offset))?
SeekContext ==
    /\ ty = "ErrorContext" /\ pc = "start"
    /\ out' = Zeros(val.size)
    /\ stream' = [stream EXCEPT !.pos = val.offset]
    /\ pc' = "reading"
    /\ UNCHANGED <<ty, EC, ED, val, res, config>>

\* One evaluation of the loop condition reader.read_exact(&mut context): the
\* context is returned when the read succeeds, and loses its last byte when
\* it fails
ReadContext ==
    /\ ty = "ErrorContext" /\ pc = "reading"
    /\ val.attempts <= MaxContextSize + 1
    /\ LET r == read_exact(stream, Len(out)) IN
       /\ stream' = r.rd
       /\ IF r.ok
          THEN /\ out' = r.buf
               /\ res' = Ok([offset |-> val.offset, context |-> r.buf], r.rd)
               /\ pc' = "returned"
          ELSE /\ out' = pop(r.buf)
               /\ res' = res
               /\ pc' = "reading"
    /\ val' = [val EXCEPT !.attempts = val.attempts + 1]
    /\ UNCHANGED <<ty, EC, ED, config>>

NextContext == SeekContext \/ ReadContext

SpecContext == InitContext /\ [][NextContext]_vars

\* the function runs on until it returns
SpecContextFair == SpecContext /\ WF_vars(NextContext)

(***************************************************************************)
(* Properties of the read loop                                             *)
(***************************************************************************)
\* the loop has made at most size + 1 read attempts and the context buffer
\* holds at most size bytes
ContextBounded == val.attempts <= val.size + 1 /\ Len(out) <= val.size

\* from_reader_at has returned the context, of at most size bytes, that the
\* loop ended with
ContextReturned ==
    /\ pc = "returned"
    /\ res.ok
    /\ res.val.offset = val.offset
    /\ res.val.context = out
    /\ Len(res.val.context) <= val.size

\* C30: ErrorContext::from_reader_at terminates for every reader, offset and
\* size: after the seek the shrinking read loop makes at most size + 1 read
\* attempts and returns a context of at most size bytes, also when fewer
\* than size bytes, or none, remain after the offset; the context returned
\* is the one the recursive read_context computes.
C30_ContextLoopTerminates ==
    /\ [](ty = "ErrorContext" => ContextBounded)
    /\ [](pc = "returned" =>
            /\ ContextReturned
            /\ res.val = ErrorContext_from_reader_at(stream, val.offset, val.size).val)
    /\ <>ContextReturned

\* a context of 3 bytes was asked for at offset 2 of a 3-byte Cursor: every
\* one of the 4 read attempts was made and the context returned is empty
C30_Witness ==
    /\ ContextReturned
    /\ stream.kind = "Cursor" /\ Len(stream.data) = 3
    /\ val = [offset |-> 2, size |-> 3, attempts |-> 4]
    /\ res.val.context = <<>>

====
